---- MODULE Spec2Model ----
(***************************************************************************)
(* A model of the core of yash-rs.                                         *)
(*                                                                         *)
(* Part 1: the trap set (yash-env/src/trap.rs).  A TrapSet maps signals to *)
(* GrandStates and keeps the signal dispositions of the underlying system  *)
(* (a SignalSystem) in step with them.  The state is the BTreeMap `traps`  *)
(* and the dispositions the system holds; there is one action per public   *)
(* method of TrapSet.                                                       *)
(*                                                                         *)
(* Part 2: the variable set (yash-env/src/variable.rs).  A VariableSet is  *)
(* a stack of contexts and, for every name, a stack of the variables       *)
(* defined for that name in those contexts.  There is one action for       *)
(* assign, one for pushing a context and one for popping the top context.  *)
(*                                                                         *)
(* Part 3: running traps (yash-semantics/src/trap.rs).  The function       *)
(* run_traps_for_caught_signals is a process of its own: the signals the   *)
(* system reports are marked pending one by one, and the trap commands run  *)
(* one after the other, each in steps, while the system may catch further   *)
(* signals.                                                                 *)
(*                                                                         *)
(* Part 4: commands and words (yash-semantics/src/command_impl.rs and      *)
(* simple_command.rs, yash-builtin/src/common.rs, the syntax module and    *)
(* the arithmetic expansion).  SimpleCommand::execute runs in steps, the   *)
(* child process of an external utility being a process of its own.       *)
(***************************************************************************)
EXTENDS Integers, Sequences, FiniteSets, TLC

\* Number of distinct command strings a Command action may carry.
NumCommands == 1
\* Number of distinct origins (Location of the trap built-in invocation).
NumOrigins == 1
\* Largest number of contexts the variable set holds at once (the base
\* context included).
MaxContexts == 3

\* The number of items of a list.
MaxItems == 2

\* The largest number of frames on the stack when a built-in reports an error.
MaxFrames == 3

\* The largest number of units of a word.
MaxUnits == 3

VARIABLES
    traps,          \* TrapSet::traps: signal -> GrandState, defined on the entries only
    os,             \* the SignalSystem: signal -> SignalHandling now in effect
    inherited,      \* the dispositions the shell inherited on startup (never changes)
    ret,            \* the last call: method, signal, return value, OS calls made,
                    \* and the signals whose parent setting it discarded
    drain           \* bookkeeping of the current run of consecutive take_caught_signal calls

vars == <<traps, os, inherited, ret, drain>>

VARIABLES
    all_variables,  \* VariableSet::all_variables: name -> stack of VariableInContext
    contexts,       \* VariableSet::contexts: the stack of contexts, base first
    outcome,        \* the last call on the variable set: method, arguments, result
    log,            \* history: the successful assignments whose context is still there
    frame,          \* history: what get returned when the top context was pushed
    shadow          \* history: the positional parameters callers set, one array for
                    \* each Regular context they pushed and have not popped

varvars == <<all_variables, contexts, outcome, log, frame, shadow>>

VARIABLES
    exit_status,    \* Env::exit_status
    env_stack,      \* Env::stack, the frames from the bottom up
    caught,         \* the signals the system caught and has not yet reported
    run,            \* the activation of run_traps_for_caught_signals
    done,           \* history: the last call of it that returned
    owed,           \* history: the signals with a command trap that were caught
                    \* and not reported before their command last started
    program,        \* the List the engine executes
    exec,           \* where the engine is in it, with the history of the run
    simple,         \* the activation of SimpleCommand::execute and its child
    answer          \* the last call of a function of the built-ins or the syntax

envvars ==
    <<exit_status, env_stack, caught, run, done, owed, program, exec, simple, answer>>

----------------------------------------------------------------------------
(* Values *)

\* Option<T>
None == <<>>
Some(x) == <<x>>

\* The signals of the model: two ordinary ones, SIGCHLD (the only signal with
\* an internal handler), and the two that can never be trapped.
Signals == {"SIGUSR1", "SIGCHLD", "SIGKILL", "SIGSTOP"}

\* enum SignalHandling
Default == "Default"
Ignore == "Ignore"
Catch == "Catch"

\* enum Action
ActionDefault == <<"Default">>
ActionIgnore == <<"Ignore">>
Command(c) == <<"Command", c>>
Actions == {ActionDefault, ActionIgnore} \cup {Command(c) : c \in 1..NumCommands}
Origins == 1..NumOrigins

\* enum Setting
InitiallyDefaulted == <<"InitiallyDefaulted">>
InitiallyIgnored == <<"InitiallyIgnored">>
UserSpecified(trap) == <<"UserSpecified", trap>>

IsUserSpecified(setting) == setting[1] = "UserSpecified"

\* Setting::as_trap
as_trap(setting) == IF IsUserSpecified(setting) THEN Some(setting[2]) ELSE None

IsCommandTrap_AnyTrap(setting) == IsUserSpecified(setting)

\* the `let ... else { continue }` patterns of enter_subshell: a UserSpecified
\* setting whose action is a Command
IsCommandTrap(setting) ==
    /\ IsUserSpecified(setting)
    /\ setting[2].action[1] = "Command"

HandlingOfAction_Swapped(action) ==
    IF action[1] = "Default" THEN Ignore
    ELSE IF action[1] = "Ignore" THEN Default
    ELSE Catch

\* impl From<&Action> for SignalHandling
HandlingOfAction(action) ==
    IF action[1] = "Default" THEN Default
    ELSE IF action[1] = "Ignore" THEN Ignore
    ELSE Catch

HandlingOfSetting_NoInitial(setting) ==
    IF IsUserSpecified(setting) THEN HandlingOfAction(setting[2].action)
    ELSE Default

\* impl From<&Setting> for SignalHandling
HandlingOfSetting(setting) ==
    IF setting = InitiallyDefaulted THEN Default
    ELSE IF setting = InitiallyIgnored THEN Ignore
    ELSE HandlingOfAction(setting[2].action)

\* BTreeMap insert (of a new key, or replacing the value of an existing one)
Insert(t, signal, state) ==
    [s \in DOMAIN t \cup {signal} |-> IF s = signal THEN state ELSE t[s]]

EmptyMap == [s \in {} |-> None]

\* SignalSystem::set_signal_handling.  `ok` is whether the system accepts the
\* call; a call that fails changes nothing.
set_signal_handling(o, signal, handling, ok) ==
    IF ok
    THEN [ok |-> TRUE, previous |-> o[signal], os |-> [o EXCEPT ![signal] = handling]]
    ELSE [ok |-> FALSE, previous |-> o[signal], os |-> o]

\* Result values
Ok == <<"Ok">>
Err(e) == <<"Err", e>>

\* TrapSet::get_state
get_state(t, signal) ==
    IF signal \notin DOMAIN t THEN <<None, None>>
    ELSE <<as_trap(t[signal].current_setting),
           IF t[signal].parent_setting = None THEN None
           ELSE as_trap(t[signal].parent_setting[1])>>

\* The signals take_caught_signal can return: UserSpecified and pending.
Pending(t) ==
    {s \in DOMAIN t : /\ IsUserSpecified(t[s].current_setting)
                      /\ t[s].current_setting[2].pending}

NoDrain == [k |-> 0, calls |-> 0, got |-> {}]

\* The signals that hold a parent setting.
WithParent(t) == {s \in DOMAIN t : t[s].parent_setting # None}

----------------------------------------------------------------------------
(* Operations *)

\* What every method leaves behind: the new map and dispositions, and the
\* record of the call.
Finish(t, o, call) ==
    /\ traps' = t
    /\ os' = o
    /\ ret' = call
    /\ UNCHANGED inherited
    /\ UNCHANGED varvars

clear_parent_settings_Kept(t) == t

\* TrapSet::clear_parent_settings
clear_parent_settings(t) ==
    [s \in DOMAIN t |-> [t[s] EXCEPT !.parent_setting = None]]

Untrappable_OnlyKill(signal) ==
    IF signal = "SIGKILL" THEN Some("SIGKILL") ELSE None

\* The `match signal` that opens set_action: the error for a signal that can
\* never be trapped.
Untrappable(signal) ==
    IF signal = "SIGKILL" THEN Some("SIGKILL")
    ELSE IF signal = "SIGSTOP" THEN Some("SIGSTOP")
    ELSE None

StaysIgnored_Forgotten(state, override_ignore) == FALSE

\* The test of set_action for an existing entry: without override_ignore, a
\* signal recorded as ignored since startup keeps that setting.
StaysIgnored(state, override_ignore) ==
    ~override_ignore /\ state.current_setting = InitiallyIgnored

TrapState_Pending(action, origin) ==
    [action |-> action, origin |-> origin, pending |-> TRUE]

\* The TrapState that set_action builds for the new action.
TrapState(action, origin) ==
    [action |-> action, origin |-> origin, pending |-> FALSE]

\* TrapSet::set_action.  `fault` is the index (1 = first) of the
\* set_signal_handling call of this invocation that the system rejects, 0 if
\* it accepts them all.
set_action(signal, action, origin, override_ignore, fault) ==
    LET call(result, n) ==
            [op |-> "set_action", signal |-> signal, result |-> result, calls |-> n,
             dropped |-> IF Untrappable(signal) # None THEN {} ELSE WithParent(traps),
             was_pending |-> signal \in Pending(traps)]
        cleared == clear_parent_settings(traps)
        state == TrapState(action, origin)
        vacant == signal \notin DOMAIN traps
        probing == vacant /\ ~override_ignore
        probe == set_signal_handling(os, signal, Ignore, fault # 1)
        os1 == IF probing THEN probe.os ELSE os
        n == IF probing THEN 2 ELSE 1
        final == set_signal_handling(os1, signal, HandlingOfAction(action), fault # n)
        ignored == [current_setting |-> InitiallyIgnored,
                    parent_setting |-> None,
                    internal_handler_enabled |-> FALSE]
        grand == [current_setting |-> UserSpecified(state),
                  parent_setting |-> None,
                  internal_handler_enabled |-> FALSE]
    IN
    /\ drain' = NoDrain
    /\ IF Untrappable(signal) # None THEN
           Finish(traps, os, call(Err(Untrappable(signal)[1]), 0))
       ELSE IF probing /\ ~probe.ok THEN
           Finish(cleared, os, call(Err("SystemError"), 1))
       ELSE IF probing /\ probe.previous = Ignore THEN
           Finish(Insert(cleared, signal, ignored), probe.os,
                  call(Err("InitiallyIgnored"), 1))
       ELSE IF ~vacant /\ StaysIgnored(cleared[signal], override_ignore) THEN
           Finish(cleared, os, call(Err("InitiallyIgnored"), 0))
       ELSE IF ~vacant /\ cleared[signal].internal_handler_enabled THEN
           Finish([cleared EXCEPT ![signal].current_setting = UserSpecified(state)],
                  os, call(Ok, 0))
       ELSE IF ~final.ok THEN
           Finish(cleared, os1, call(Err("SystemError"), n))
       ELSE
           Finish(Insert(cleared, signal, grand), final.os, call(Ok, n))

KeepsInternalHandler_Never(state) == FALSE

\* The test of enter_subshell that leaves the disposition alone: the signal
\* has an internal handler, which must stay installed.
KeepsInternalHandler(state) == state.internal_handler_enabled

\* TrapSet::enter_subshell.  F is the set of signals for which the system
\* rejects the set_signal_handling call; the result is discarded (`.ok()`).
enter_subshell(F) ==
    LET cleared == clear_parent_settings(traps)
        reset == {s \in DOMAIN cleared : IsCommandTrap(cleared[s].current_setting)}
        called == {s \in reset : ~KeepsInternalHandler(cleared[s])}
        t2 == [s \in DOMAIN cleared |->
                 IF s \in reset
                 THEN [cleared[s] EXCEPT
                         !.parent_setting = Some(cleared[s].current_setting),
                         !.current_setting = InitiallyDefaulted]
                 ELSE cleared[s]]
        o2 == [s \in Signals |->
                 IF s \in called
                 THEN set_signal_handling(os, s, Default, s \notin F).os[s]
                 ELSE os[s]]
    IN
    /\ drain' = NoDrain
    /\ Finish(t2, o2,
              [op |-> "enter_subshell", calls |-> Cardinality(called),
               dropped |-> WithParent(traps),
               nested |-> ret.op = "enter_subshell"])

catch_signal_Every(signal) ==
    LET t2 == [s \in DOMAIN traps |->
                 IF signal \in DOMAIN traps /\ IsUserSpecified(traps[s].current_setting)
                 THEN [traps[s] EXCEPT !.current_setting[2].pending = TRUE]
                 ELSE traps[s]]
    IN
    /\ drain' = NoDrain
    /\ Finish(t2, os, [op |-> "catch_signal", signal |-> signal, calls |-> 0])

\* TrapSet::catch_signal
catch_signal(signal) ==
    LET t2 == IF signal \in DOMAIN traps /\ IsUserSpecified(traps[signal].current_setting)
              THEN [traps EXCEPT ![signal].current_setting[2].pending = TRUE]
              ELSE traps
    IN
    /\ drain' = NoDrain
    /\ Finish(t2, os, [op |-> "catch_signal", signal |-> signal, calls |-> 0])

\* The bookkeeping of a run of consecutive take_caught_signal calls: how
\* many signals were pending when the run began (k), the number of calls so
\* far, and the signals they returned.  Calls after the (k+1)-th are counted
\* as the (k+1)-th, which keeps the count finite.
NextDrain(result) ==
    LET start == IF ret.op = "take_caught_signal" THEN drain
                 ELSE [k |-> Cardinality(Pending(traps)), calls |-> 0, got |-> {}]
    IN [k |-> start.k,
        calls |-> IF start.calls > start.k THEN start.calls ELSE start.calls + 1,
        got |-> start.got \cup (IF result = None THEN {} ELSE {result[1][1]})]

take_caught_signal_StillPending ==
    \/ /\ Pending(traps) = {}
       /\ drain' = NextDrain(None)
       /\ Finish(traps, os,
                 [op |-> "take_caught_signal", result |-> None, calls |-> 0])
    \/ \E signal \in Pending(traps) :
         LET result == Some(<<signal, traps[signal].current_setting[2]>>)
         IN
         /\ drain' = NextDrain(result)
         /\ Finish(traps, os,
                   [op |-> "take_caught_signal", result |-> result, calls |-> 0])

\* TrapSet::take_caught_signal.  find_map returns the first pending entry in
\* the key order of the BTreeMap, which is the platform's numbering of the
\* signals; the documentation leaves the choice unspecified, and so does the
\* model.
take_caught_signal ==
    \/ /\ Pending(traps) = {}
       /\ drain' = NextDrain(None)
       /\ Finish(traps, os,
                 [op |-> "take_caught_signal", result |-> None, calls |-> 0])
    \/ \E signal \in Pending(traps) :
         LET t2 == [traps EXCEPT ![signal].current_setting[2].pending = FALSE]
             result == Some(<<signal, t2[signal].current_setting[2]>>)
         IN
         /\ drain' = NextDrain(result)
         /\ Finish(t2, os,
                   [op |-> "take_caught_signal", result |-> result, calls |-> 0])

enable_sigchld_handler_Again(ok) ==
    LET call(result, n) == [op |-> "enable_sigchld_handler", result |-> result, calls |-> n]
        occupied == "SIGCHLD" \in DOMAIN traps
        sys == set_signal_handling(os, "SIGCHLD", Catch, ok)
        current_setting == IF sys.previous = Ignore THEN InitiallyIgnored
                           ELSE InitiallyDefaulted
    IN
    /\ drain' = NoDrain
    /\ IF ~sys.ok THEN
           Finish(traps, os, call(Err("SystemError"), 1))
       ELSE IF occupied THEN
           Finish([traps EXCEPT !["SIGCHLD"].internal_handler_enabled = TRUE],
                  sys.os, call(Ok, 1))
       ELSE
           Finish(Insert(traps, "SIGCHLD",
                         [current_setting |-> current_setting,
                          parent_setting |-> None,
                          internal_handler_enabled |-> TRUE]),
                  sys.os, call(Ok, 1))

\* TrapSet::enable_sigchld_handler
enable_sigchld_handler(ok) ==
    LET call(result, n) == [op |-> "enable_sigchld_handler", result |-> result, calls |-> n]
        occupied == "SIGCHLD" \in DOMAIN traps
        sys == set_signal_handling(os, "SIGCHLD", Catch, ok)
        current_setting == IF sys.previous = Ignore THEN InitiallyIgnored
                           ELSE InitiallyDefaulted
    IN
    /\ drain' = NoDrain
    /\ IF occupied /\ traps["SIGCHLD"].internal_handler_enabled THEN
           Finish(traps, os, call(Ok, 0))
       ELSE IF ~sys.ok THEN
           Finish(traps, os, call(Err("SystemError"), 1))
       ELSE IF occupied THEN
           Finish([traps EXCEPT !["SIGCHLD"].internal_handler_enabled = TRUE],
                  sys.os, call(Ok, 1))
       ELSE
           Finish(Insert(traps, "SIGCHLD",
                         [current_setting |-> current_setting,
                          parent_setting |-> None,
                          internal_handler_enabled |-> TRUE]),
                  sys.os, call(Ok, 1))

\* TrapSet::disable_internal_handlers
disable_internal_handlers(ok) ==
    LET call(result, n) == [op |-> "disable_internal_handlers", result |-> result, calls |-> n]
        enabled == /\ "SIGCHLD" \in DOMAIN traps
                   /\ traps["SIGCHLD"].internal_handler_enabled
        sys == set_signal_handling(os, "SIGCHLD",
                                   HandlingOfSetting(traps["SIGCHLD"].current_setting), ok)
    IN
    /\ drain' = NoDrain
    /\ IF ~enabled THEN
           Finish(traps, os, call(Ok, 0))
       ELSE IF ~sys.ok THEN
           Finish(traps, os, call(Err("SystemError"), 1))
       ELSE
           Finish([traps EXCEPT !["SIGCHLD"].internal_handler_enabled = FALSE],
                  sys.os, call(Ok, 1))

----------------------------------------------------------------------------
(* Values of the variable set *)

\* The variable names, values and locations of the model.
Names == {"foo", "bar"}
Values == {"a", "b"}
Locations == {"L1", "L2"}

\* struct Variable.  last_assigned_location is left out: the variable set
\* stores it and never reads it.
Variables ==
    [value : Values, is_exported : BOOLEAN,
     read_only_location : {None} \cup {Some(l) : l \in Locations}]

\* enum ContextType
Regular == "Regular"
Volatile == "Volatile"
ContextTypes == {Regular, Volatile}

\* enum Scope
Scopes == {"Global", "Local", "Volatile"}

\* The arrays callers store in the positional parameters.
Arrays == {<<>>, <<"1">>, <<"1", "2">>}

\* Context::new: the positional parameters are an empty array, neither
\* exported nor read-only.
Context_new(type) ==
    [type |-> type,
     positional_params |-> [value |-> <<>>, is_exported |-> FALSE,
                            read_only_location |-> None]]

\* struct VariableInContext
VariableInContext(variable, context_index) ==
    [variable |-> variable, context_index |-> context_index]

\* struct ReadOnlyError
ReadOnlyError(name, location, value) ==
    [name |-> name, read_only_location |-> location, new_value |-> value]

\* Result::Ok carrying a value, and the outcome of a call that panicked.
OkOf(x) == <<"Ok", x>>
Panic == <<"Panic">>

\* slice::last, for a stack that is not empty
Last(stack) == stack[Len(stack)]

\* The greatest element of a set of numbers that is not empty.
MaxOf(S) == CHOOSE x \in S : \A y \in S : y <= x

----------------------------------------------------------------------------
(* Operations of the variable set *)

\* VariableSet::get.  A name without an entry and a name whose stack is empty
\* give the same answer, so the map has an (empty) stack for every name.
get_Bottom(av, name) ==
    IF av[name] = <<>> THEN None ELSE Some(av[name][1].variable)

get(av, name) ==
    IF av[name] = <<>> THEN None ELSE Some(Last(av[name]).variable)

\* assign, first check: a Volatile assignment looks at the visible variable
\* and gives its read-only location, if it has one.
hides_read_only_Unchecked(scope, stack) == None

hides_read_only(scope, stack) ==
    IF scope = "Volatile" /\ stack # <<>>
    THEN Last(stack).variable.read_only_location
    ELSE None

\* assign: whether the Volatile scope is refused (the assert_eq!).
requires_volatile_context(scope, ctxs) ==
    scope = "Volatile" /\ Last(ctxs).type # Volatile

\* assign: "To which context should we assign?"  Indices count from 0.
context_index_GlobalBase(scope, stack, ctxs) ==
    CASE scope = "Global" -> 0
      [] scope = "Local" ->
            MaxOf({i \in 1..Len(ctxs) : ctxs[i].type = Regular}) - 1
      [] scope = "Volatile" -> Len(ctxs) - 1

context_index_LocalTop(scope, stack, ctxs) ==
    CASE scope = "Global" ->
            LET regular == {i \in 1..Len(stack) :
                              ctxs[stack[i].context_index + 1].type # Volatile}
            IN  IF regular = {} THEN 0 ELSE stack[MaxOf(regular)].context_index
      [] scope = "Local" -> Len(ctxs) - 1
      [] scope = "Volatile" -> Len(ctxs) - 1

context_index(scope, stack, ctxs) ==
    CASE scope = "Global" ->
            LET regular == {i \in 1..Len(stack) :
                              ctxs[stack[i].context_index + 1].type # Volatile}
            IN  IF regular = {} THEN 0 ELSE stack[MaxOf(regular)].context_index
      [] scope = "Local" ->
            MaxOf({i \in 1..Len(ctxs) : ctxs[i].type = Regular}) - 1
      [] scope = "Volatile" -> Len(ctxs) - 1

\* assign: "Remove volatile variables", the loop that pops the stack while
\* its last item belongs to a context above the target.
remove_volatile_Kept(stack, index) == stack

RECURSIVE remove_volatile(_, _)
remove_volatile(stack, index) ==
    IF stack # <<>> /\ Last(stack).context_index > index
    THEN remove_volatile(SubSeq(stack, 1, Len(stack) - 1), index)
    ELSE stack

\* assign: the variable already defined in the target context, if any.
existing_Missed(stack, index) == None

existing(stack, index) ==
    IF stack # <<>> /\ Last(stack).context_index = index
    THEN Some(Last(stack).variable)
    ELSE None

\* assign: `value.is_exported |= existing.is_exported`
inherit_export_Dropped(value, old) == value

inherit_export(value, old) ==
    [value EXCEPT !.is_exported = @ \/ old.is_exported]

\* VariableSet::assign as a function of the variable set: the new map, the
\* result, and for the record the target context and the number of variables
\* the call removed from the stack (-1 and 0 when it did not get that far).
assign(av, ctxs, scope, name, value) ==
    LET stack == av[name]
        location == hides_read_only(scope, stack)
    IN  IF location # None
        THEN [all_variables |-> av,
              result |-> Err(ReadOnlyError(name, location[1], value)),
              target |-> -1, removed |-> 0]
        ELSE IF requires_volatile_context(scope, ctxs)
        THEN [all_variables |-> av, result |-> Panic, target |-> -1, removed |-> 0]
        ELSE
        LET index == context_index(scope, stack, ctxs)
            kept == remove_volatile(stack, index)
            old == existing(kept, index)
            removed == Len(stack) - Len(kept)
        IN  IF old = None
            THEN [all_variables |->
                      [av EXCEPT ![name] =
                          Append(kept, VariableInContext(value, index))],
                  result |-> OkOf(None), target |-> index, removed |-> removed]
            ELSE IF old[1].read_only_location # None
            THEN [all_variables |-> [av EXCEPT ![name] = kept],
                  result |-> Err(ReadOnlyError(name, old[1].read_only_location[1],
                                               value)),
                  target |-> index, removed |-> removed]
            ELSE [all_variables |->
                      [av EXCEPT ![name] =
                          [kept EXCEPT ![Len(kept)].variable =
                              inherit_export(value, old[1])]],
                  result |-> OkOf(old), target |-> index, removed |-> removed]

\* positional_params and positional_params_mut: the place in the stack of
\* the context whose parameters they refer to, the last Regular one
\* (`.filter(|c| c.r#type == ContextType::Regular).last()`).
regular_context_Top(ctxs) == Len(ctxs)

regular_context(ctxs) ==
    MaxOf({i \in 1..Len(ctxs) : ctxs[i].type = Regular})

\* VariableSet::positional_params
positional_params(ctxs) == ctxs[regular_context(ctxs)].positional_params

\* pop_context_impl, the loop body: a stack loses its last item when that
\* item belongs to a context that is no longer there.
pop_stack_Kept(stack, len) == stack

pop_stack(stack, len) ==
    IF stack # <<>> /\ Last(stack).context_index >= len
    THEN SubSeq(stack, 1, Len(stack) - 1)
    ELSE stack

\* pop_context_impl: `assert_ne!(self.contexts.len(), 1, ...)`
cannot_pop_Unchecked(ctxs) == FALSE

cannot_pop(ctxs) == Len(ctxs) = 1

\* History: what get returns for every name.
Visible(av) == [n \in Names |-> get(av, n)]

\* History: the log without the assignments to `name` in context `index`.
Forget(entries, name, index) ==
    LET Other(e) == ~(e.name = name /\ e.context_index = index)
    IN  SelectSeq(entries, Other)

\* History: the log without the assignments to contexts from `len` up.
Below(entries, len) ==
    LET Lower(e) == e.context_index < len
    IN  SelectSeq(entries, Lower)

\* History: the variable an assignment defines, given the variable it was
\* called with and the previous variable it returned.
Assigned(value, previous) ==
    IF previous # None /\ previous[1].is_exported
    THEN [value EXCEPT !.is_exported = TRUE]
    ELSE value

\* A call of assign; `logging` is whether the history of assignments is kept.
assign_call(scope, name, value, logging) ==
    LET call == assign(all_variables, contexts, scope, name, value)
        fits == \/ scope = "Volatile" /\ Last(contexts).type = Volatile
                \/ scope = "Local" /\ Last(contexts).type = Regular
    IN  /\ all_variables' = call.all_variables
        /\ contexts' = contexts
        /\ outcome' = [op |-> "assign", scope |-> scope, name |-> name,
                       value |-> value, result |-> call.result,
                       target |-> call.target, removed |-> call.removed]
        /\ log' = IF logging /\ call.result[1] = "Ok"
                  THEN Append(Forget(log, name, call.target),
                              [name |-> name, context_index |-> call.target,
                               variable |-> Assigned(value, call.result[2])])
                  ELSE log
        /\ frame' = IF fits /\ frame # None
                    THEN Some([frame[1] EXCEPT !.assigned =
                                   @ \/ call.result[1] = "Ok"])
                    ELSE None
        /\ shadow' = shadow
        /\ UNCHANGED <<vars, envvars>>

\* A caller stores `array` through the reference positional_params_mut
\* returns.
positional_params_mut(array) ==
    /\ contexts' = [contexts EXCEPT
                       ![regular_context(contexts)].positional_params.value = array]
    /\ all_variables' = all_variables
    /\ outcome' = [op |-> "positional_params_mut", value |-> array]
    /\ log' = log
    /\ frame' = frame
    /\ shadow' = [shadow EXCEPT ![Len(shadow)] = array]
    /\ UNCHANGED <<vars, envvars>>

\* VariableSet::push_context and Env::push_context (push_context_impl).
push_context(type) ==
    /\ Len(contexts) < MaxContexts
    /\ contexts' = Append(contexts, Context_new(type))
    /\ all_variables' = all_variables
    /\ outcome' = [op |-> "push_context", type |-> type]
    /\ log' = log
    /\ frame' = Some([saved |-> Visible(all_variables), assigned |-> FALSE])
    /\ shadow' = IF type = Regular THEN Append(shadow, <<>>) ELSE shadow
    /\ UNCHANGED <<vars, envvars>>

\* Dropping a ContextGuard or EnvContextGuard (pop_context_impl).
pop_context ==
    /\ IF cannot_pop(contexts)
       THEN /\ contexts' = contexts
            /\ all_variables' = all_variables
            /\ outcome' = [op |-> "pop_context", result |-> Panic, framed |-> FALSE]
            /\ log' = log
       ELSE LET rest == SubSeq(contexts, 1, Len(contexts) - 1)
            IN  /\ contexts' = rest
                /\ all_variables' =
                       [n \in Names |-> pop_stack(all_variables[n], Len(rest))]
                /\ outcome' = [op |-> "pop_context", result |-> Ok,
                               framed |-> frame # None /\ frame[1].assigned]
                /\ log' = Below(log, Len(rest))
    /\ frame' = None
    /\ shadow' = IF ~cannot_pop(contexts) /\ Last(contexts).type = Regular
                 THEN SubSeq(shadow, 1, Len(shadow) - 1)
                 ELSE shadow
    /\ UNCHANGED <<vars, envvars>>

\* Strings are sequences of characters; NUL is the null byte.
NUL == "NUL"
Bytes(name) == IF name = "foo" THEN <<"f", "o", "o">> ELSE <<"b", "a", "r">>

\* Value::Scalar and Value::Array
Scalar(string) == <<"Scalar", string>>
Array(strings) == <<"Array", strings>>

\* `values.iter().format(":")`: the strings with a colon between neighbours.
RECURSIVE format(_)
format(strings) ==
    IF strings = <<>> THEN <<>>
    ELSE IF Len(strings) = 1 THEN strings[1]
    ELSE strings[1] \o <<":">> \o format(Tail(strings))

\* CString::new(s).ok(): nothing when the string contains a null byte.
CString_new_Unchecked(s) == Some(s)

CString_new(s) ==
    IF \E i \in 1..Len(s) : s[i] = NUL THEN None ELSE Some(s)

\* The closure of env_c_strings: the entry of one name, if it has one.
env_c_string(name, stack) ==
    IF stack = <<>> THEN None
    ELSE LET var == Last(stack).variable IN
         IF var.is_exported
         THEN CString_new(Bytes(name) \o <<"=">> \o
                          (IF var.value[1] = "Scalar" THEN var.value[2]
                                                      ELSE format(var.value[2])))
         ELSE None

\* VariableSet::env_c_strings: the entries in the order in which the hash
\* map yields the names, here `order`.
RECURSIVE env_c_strings(_, _)
env_c_strings(av, order) ==
    IF order = <<>> THEN <<>>
    ELSE LET entry == env_c_string(order[1], av[order[1]]) IN
         (IF entry = None THEN <<>> ELSE <<entry[1]>>) \o
         env_c_strings(av, Tail(order))

\* The orders in which a hash map may yield the names.
Orders == {o \in [1..Cardinality(Names) -> Names] :
             \A n \in Names : \E i \in DOMAIN o : o[i] = n}

\* A call of env_c_strings.
env_c_strings_call ==
    \E order \in Orders :
        /\ outcome' = [op |-> "env_c_strings",
                       result |-> env_c_strings(all_variables, order)]
        /\ UNCHANGED <<all_variables, contexts, log, frame, shadow>>
        /\ UNCHANGED <<vars, envvars>>

----------------------------------------------------------------------------
(* Values of the execution environment *)

\* The exit statuses of the model.
ExitStatuses == 0..2

\* enum Frame: the frame of a running trap and the frame of a built-in.
FrameTrap == "Trap"
FrameBuiltin == "Builtin"
Frames == {FrameTrap, FrameBuiltin}

\* semantics::Result: Continue(()) or Break(divert)
Continue == <<"Continue">>
Break(divert) == <<"Break", divert>>

\* enum Divert, the two values a trap command uses to leave early
Return == "Return"
Exit == "Exit"

\* No call of run_traps_for_caught_signals is in progress.
Idle ==
    [phase |-> "idle", polling |-> {}, polled |-> {}, had |-> {}, before |-> 0,
     previous_exit_status |-> 0, ran |-> <<>>, due |-> {}]

\* The last step was not a return from run_traps_for_caught_signals.
NoCall ==
    [result |-> None, in_trap |-> FALSE, polled |-> {}, had |-> {}, left |-> {},
     before |-> 0, ran |-> <<>>, due |-> {}, broke |-> None, exit |-> None]

----------------------------------------------------------------------------
(* Running traps *)

in_trap_Top(frames) == frames # <<>> /\ frames[Len(frames)] = FrameTrap

\* in_trap
in_trap(frames) == \E i \in 1..Len(frames) : frames[i] = FrameTrap

\* The system catches a signal whose disposition is Catch; it is reported by
\* the next poll_signals.
raise(signal) ==
    /\ os[signal] = Catch
    /\ caught' = caught \cup {signal}
    /\ owed' = IF signal \in DOMAIN traps /\ IsCommandTrap(traps[signal].current_setting)
               THEN owed \cup {signal} ELSE owed
    /\ done' = NoCall
    /\ UNCHANGED <<exit_status, env_stack, run>>
    /\ UNCHANGED <<vars, varvars>>

\* The caller pushes a frame (Env::push_frame): that of a trap it runs, and
\* on top of it that of a built-in ...
push_frame(f) ==
    /\ run.phase = "idle"
    /\ env_stack = IF f = FrameTrap THEN <<>> ELSE <<FrameTrap>>
    /\ env_stack' = Append(env_stack, f)
    /\ done' = NoCall
    /\ UNCHANGED <<exit_status, caught, run, owed>>
    /\ UNCHANGED <<vars, varvars>>

\* ... and pops it when the guard is dropped.
pop_frame ==
    /\ run.phase = "idle"
    /\ env_stack # <<>>
    /\ env_stack' = SubSeq(env_stack, 1, Len(env_stack) - 1)
    /\ done' = NoCall
    /\ UNCHANGED <<exit_status, caught, run, owed>>
    /\ UNCHANGED <<vars, varvars>>

\* A command of the caller or of a trap body completes with `status`.
simple_command(status) ==
    /\ run.phase \in {"idle", "body"}
    /\ exit_status' = status
    /\ done' = NoCall
    /\ UNCHANGED <<env_stack, caught, run, owed>>
    /\ UNCHANGED <<vars, varvars>>

\* run_traps_for_caught_signals is called; poll_signals asks the system for
\* the signals it caught.
run_traps_for_caught_signals ==
    /\ run.phase = "idle"
    /\ run' = [Idle EXCEPT !.phase = "poll", !.polling = caught, !.polled = caught,
                           !.had = Pending(traps), !.before = exit_status,
                           !.due = owed]
    /\ caught' = {}
    /\ done' = NoCall
    /\ UNCHANGED <<exit_status, env_stack, owed>>
    /\ UNCHANGED <<vars, varvars>>

\* poll_signals passes one of those signals to the trap set.
poll_signals ==
    /\ run.phase = "poll"
    /\ \E signal \in run.polling :
         /\ catch_signal(signal)
         /\ run' = [run EXCEPT !.polling = @ \ {signal}]
    /\ done' = NoCall
    /\ UNCHANGED <<exit_status, env_stack, caught, owed>>

\* What a call leaves behind when it returns `result`.
Returned(result, t, broke, exit) ==
    [result |-> result, in_trap |-> run.phase = "poll", polled |-> run.polled,
     had |-> run.had, left |-> Pending(t), before |-> run.before,
     ran |-> run.ran, due |-> run.due, broke |-> broke, exit |-> exit]

\* `if in_trap(env) { return Continue(()) }`
reentrance_check ==
    /\ run.phase = "poll"
    /\ run.polling = {}
    /\ IF in_trap(env_stack)
       THEN /\ run' = Idle
            /\ done' = Returned(Continue, traps, None, None)
       ELSE /\ run' = [run EXCEPT !.phase = "loop"]
            /\ done' = NoCall
    /\ UNCHANGED <<exit_status, env_stack, caught, owed>>
    /\ UNCHANGED <<vars, varvars>>

\* One turn of the loop up to the start of the trap command:
\* `while let Some((signal, state)) = env.traps.take_caught_signal()`.
next_trap ==
    /\ run.phase = "loop"
    /\ take_caught_signal
    /\ LET taken == ret'.result IN
       IF taken = None THEN
           /\ run' = Idle
           /\ done' = Returned(Continue, traps', None, None)
           /\ UNCHANGED <<exit_status, env_stack, owed>>
       ELSE IF taken[1][2].action[1] # "Command" THEN
           /\ done' = NoCall
           /\ UNCHANGED <<exit_status, env_stack, run, owed>>
       ELSE
           /\ env_stack' = Append(env_stack, FrameTrap)
           /\ run' = [run EXCEPT
                        !.phase = "body",
                        !.previous_exit_status = exit_status,
                        !.ran = Append(@, [signal |-> taken[1][1],
                                           command |-> taken[1][2].action[2],
                                           exit_status |-> exit_status])]
           /\ owed' = IF taken[1][1] \in caught THEN owed ELSE owed \ {taken[1][1]}
           /\ done' = NoCall
           /\ UNCHANGED <<exit_status>>
    /\ caught' = caught

\* `env.exit_status = previous_exit_status` after the trap command
restore_Skipped(previous_exit_status, current) == current

restore(previous_exit_status, current) == previous_exit_status

\* The trap command ran to its end: read_eval_loop_boxed returned
\* Continue(()), the exit status is restored and the frame popped.
trap_continue ==
    /\ run.phase = "body"
    /\ exit_status' = restore(run.previous_exit_status, exit_status)
    /\ env_stack' = SubSeq(env_stack, 1, Len(env_stack) - 1)
    /\ run' = [run EXCEPT !.phase = "loop", !.previous_exit_status = 0]
    /\ done' = NoCall
    /\ UNCHANGED <<caught, owed>>
    /\ UNCHANGED <<vars, varvars>>

trap_break_Restored(status, divert, exit) ==
    /\ run.phase = "body"
    /\ exit_status' = run.previous_exit_status
    /\ env_stack' = SubSeq(env_stack, 1, Len(env_stack) - 1)
    /\ run' = Idle
    /\ done' = Returned(Break(divert), traps,
                        Some([status |-> status, divert |-> divert]), exit)
    /\ UNCHANGED <<caught, owed>>
    /\ UNCHANGED <<vars, varvars>>

\* The trap command ended in a built-in that returned `status` and `divert`:
\* the `?` returns Break(divert) from the function and the frame is popped.
trap_break(status, divert, exit) ==
    /\ run.phase = "body"
    /\ exit_status' = status
    /\ env_stack' = SubSeq(env_stack, 1, Len(env_stack) - 1)
    /\ run' = Idle
    /\ done' = Returned(Break(divert), traps,
                        Some([status |-> status, divert |-> divert]), exit)
    /\ UNCHANGED <<caught, owed>>
    /\ UNCHANGED <<vars, varvars>>

\* The return built-in with an operand, as in the trap `return 56`.
return_builtin(n) == trap_break(n, Return, None)

\* The exit built-in in a trap command: with an operand the exit status is
\* the operand, without one it is the current exit status.
exit_builtin(operand) ==
    trap_break(IF operand = None THEN exit_status ELSE operand[1], Exit,
               Some(operand))

----------------------------------------------------------------------------
(* The execution engine *)

\* enum AndOr
AndThen == "AndThen"
OrElse == "OrElse"

\* The simple commands of the programs: the built-in of the tests, which
\* returns its operand as the exit status (`return -n 0`, `return -n 1`) and
\* without -n also diverts (`return 1`).
SimpleCommands ==
    {[status |-> n, divert |-> None] : n \in 0..1}
    \cup {[status |-> 1, divert |-> Some(Return)]}

\* struct Pipeline, with one command
Pipelines == {<<c>> : c \in SimpleCommands}

\* struct AndOrList: `first` and up to one (AndOr, Pipeline) pair in `rest`
AndOrLists ==
    [first : Pipelines,
     rest : {<<>>} \cup {<<[op |-> op, pipeline |-> <<c>>]>> :
                            op \in {AndThen, OrElse},
                            c \in {d \in SimpleCommands : d.divert = None}}]

\* struct List: the and-or lists of its items
Lists == UNION {[1..n -> AndOrLists] : n \in 0..MaxItems}

\* No program is being executed.
NotExecuting ==
    [stage |-> "none", item |-> 0, begun |-> <<>>, trace |-> <<>>, missed |-> {},
     result |-> None]

\* <List as Command>::execute is called.
List_execute == [NotExecuting EXCEPT !.stage = "list", !.item = 1]

\* Pipeline::execute: the command that is run, `self.commands.get(0)`
Pipeline_command(pipeline) == pipeline[1]

\* AndOrList::execute: the pipeline that is run, `self.first`; the pairs in
\* `rest` are left alone (`// TODO rest`).
AndOrList_pipeline(and_or) == and_or.first

\* The `?` of the loop of List::execute: the loop goes on after a result Ok.
continues_Always(result) == TRUE

continues(result) == result = Ok

\* Item::execute down to the start of the command of SimpleCommand::execute:
\* the first pipeline of the and-or list of the item begins.  `begun` names
\* the pipelines by item and place in the and-or list.
begin_command ==
    /\ exec.stage = "list"
    /\ exec.item <= Len(program)
    /\ exec' = [exec EXCEPT !.stage = "command",
                            !.begun = Append(@, <<exec.item, 1>>)]
    /\ UNCHANGED <<program, exit_status, env_stack, caught, run, done, owed>>
    /\ UNCHANGED <<vars, varvars>>

\* The built-in returns: SimpleCommand::execute sets the exit status and
\* returns Err(abort) if the built-in diverts; the and-or list and the item
\* return the same, and the loop of the list goes on or returns.
end_command ==
    /\ exec.stage = "command"
    /\ LET command == Pipeline_command(AndOrList_pipeline(program[exec.item]))
           result == IF command.divert # None THEN Err(command.divert[1]) ELSE Ok
       IN
       /\ exit_status' = command.status
       /\ exec' = [exec EXCEPT
                     !.stage = IF continues(result) THEN "list" ELSE "done",
                     !.item = IF continues(result) THEN @ + 1 ELSE @,
                     !.trace = Append(@, [item |-> exec.item, result |-> result]),
                     !.result = IF continues(result) THEN None ELSE Some(result)]
    /\ UNCHANGED <<program, env_stack, caught, run, done, owed>>
    /\ UNCHANGED <<vars, varvars>>

\* The loop of List::execute is over: Ok(()).
List_return ==
    /\ exec.stage = "list"
    /\ exec.item > Len(program)
    /\ exec' = [exec EXCEPT !.stage = "done", !.result = Some(Ok)]
    /\ UNCHANGED <<program, exit_status, env_stack, caught, run, done, owed>>
    /\ UNCHANGED <<vars, varvars>>

\* The system catches a signal while the engine runs; `missed` remembers
\* during which command.
raise_during(signal) ==
    /\ raise(signal)
    /\ exec.stage # "done"
    /\ exec' = IF exec.stage = "command"
               THEN [exec EXCEPT !.missed = @ \cup {<<signal, exec.begun[Len(exec.begun)]>>}]
               ELSE exec
    /\ program' = program

----------------------------------------------------------------------------
(* Simple commands *)

\* ExitStatus::NOT_FOUND and ExitStatus::NOEXEC
NOT_FOUND == 127
NOEXEC == 126

\* The errors of the system calls.
Errnos == {"ENOENT", "ENOTDIR", "EACCES", "ENOSYS"}

\* What `search` finds for the command name: a built-in, here by the exit
\* status and the divert it returns, a function, the path of an external
\* utility, or nothing.
Targets ==
    {[kind |-> "Builtin", exit_status |-> n, abort |-> a] :
        n \in ExitStatuses, a \in {None, Some(Return)}}
    \cup {[kind |-> k] : k \in {"Function", "External", "None"}}

\* What expand_words returns: the fields, here their number, or an error.
Expansions == {<<"Ok", 0>>, <<"Ok", 1>>, <<"Err", "expansion">>}

\* SimpleCommand::execute is not running.
NotRunning ==
    [stage |-> "idle", before |-> 0, expansion |-> None, target |-> None,
     fork |-> None, execve |-> None, child |-> None, result |-> None]

\* No function has been called.
NoAnswer == [op |-> "none"]

\* What a step of a simple command leaves alone besides `simple` and the
\* exit status.
SimpleFrame ==
    /\ UNCHANGED <<env_stack, caught, run, done, owed, program, exec, answer>>
    /\ UNCHANGED <<vars, varvars>>

\* The `match errno` of the child: the exit status for a failed execve.
exec_failure_status_Noexec(errno) == NOEXEC

exec_failure_status(errno) ==
    IF errno \in {"ENOENT", "ENOTDIR"} THEN NOT_FOUND ELSE NOEXEC

\* SimpleCommand::execute up to the call of run_in_subshell, or to its
\* return when the command is not an external utility.
SimpleCommand_execute(expansion, target) ==
    /\ simple.stage \in {"idle", "returned"}
    /\ LET begun == [NotRunning EXCEPT !.before = exit_status,
                                       !.expansion = Some(expansion)]
           found == [begun EXCEPT !.target = Some(target)]
           returns(r, result) == [r EXCEPT !.stage = "returned", !.result = Some(result)]
       IN
       IF expansion[1] = "Err" THEN
           /\ simple' = returns(begun, Ok)
           /\ UNCHANGED exit_status
       ELSE IF expansion[2] = 0 THEN
           /\ simple' = returns(begun, Ok)
           /\ UNCHANGED exit_status
       ELSE IF target.kind = "Builtin" THEN
           /\ exit_status' = target.exit_status
           /\ simple' = returns(found, IF target.abort = None THEN Ok
                                                               ELSE Err(target.abort[1]))
       ELSE IF target.kind = "Function" THEN
           /\ simple' = returns(found, Ok)
           /\ UNCHANGED exit_status
       ELSE IF target.kind = "External" THEN
           /\ simple' = [found EXCEPT !.stage = "fork"]
           /\ UNCHANGED exit_status
       ELSE
           /\ exit_status' = NOT_FOUND
           /\ simple' = returns(found, Ok)
    /\ SimpleFrame

\* Env::run_in_subshell forks.  When the system cannot create the child, it
\* returns the error, and execute sets the exit status and returns;
\* otherwise the child starts with a copy of the environment.
run_in_subshell(fork) ==
    /\ simple.stage = "fork"
    /\ IF fork[1] = "Err" THEN
           /\ exit_status' = NOEXEC
           /\ simple' = [simple EXCEPT !.stage = "returned", !.fork = Some(fork),
                                        !.result = Some(Ok)]
       ELSE
           /\ simple' = [simple EXCEPT !.stage = "child", !.fork = Some(fork),
                                        !.child = Some(exit_status)]
           /\ UNCHANGED exit_status
    /\ SimpleFrame

\* The child calls execve.  When it fails the child sets its exit status
\* and finishes with it; when it succeeds the utility runs in the child and
\* exits with a status of its own.
execve(completion) ==
    /\ simple.stage = "child"
    /\ simple' = [simple EXCEPT
                     !.stage = "exited",
                     !.execve = Some(completion),
                     !.child = Some(IF completion[1] = "Err"
                                    THEN exec_failure_status(completion[2])
                                    ELSE completion[2])]
    /\ UNCHANGED exit_status
    /\ SimpleFrame

\* run_in_subshell returns the exit status of the child, which execute
\* stores before it returns.
subshell_exit ==
    /\ simple.stage = "exited"
    /\ exit_status' = simple.child[1]
    /\ simple' = [simple EXCEPT !.stage = "returned", !.result = Some(Ok)]
    /\ SimpleFrame

----------------------------------------------------------------------------
(* Errors of built-ins *)

\* struct Builtin (the frame of a running built-in) and the frames of the
\* stack: Frame::Builtin(builtin) and Frame::Trap
Builtin(is_special) == [name |-> "builtin", is_special |-> is_special]
Frame_Builtin(builtin) == <<FrameBuiltin, builtin>>
Frame_Trap == <<FrameTrap>>
StackFrames == {Frame_Trap} \cup {Frame_Builtin(Builtin(b)) : b \in BOOLEAN}

\* Divert::Interrupt
Interrupt(exit_status_or_none) == <<"Interrupt", exit_status_or_none>>

\* Stack::current_builtin: the innermost frame of a built-in.
current_builtin(frames) ==
    LET builtins == {i \in 1..Len(frames) : frames[i][1] = FrameBuiltin}
    IN  IF builtins = {} THEN None ELSE Some(frames[MaxOf(builtins)][2])

is_executing_special_builtin_Assumed(frames) ==
    IF current_builtin(frames) = None THEN TRUE
    ELSE current_builtin(frames)[1].is_special

\* <Stack as BuiltinEnv>::is_executing_special_builtin:
\* `self.current_builtin().map_or(false, |builtin| builtin.is_special)`
is_executing_special_builtin(frames) ==
    IF current_builtin(frames) = None THEN FALSE
    ELSE current_builtin(frames)[1].is_special

\* <Stack as BuiltinEnv>::builtin_error
builtin_error(frames) ==
    IF is_executing_special_builtin(frames) THEN Break(Interrupt(None))
    ELSE Continue

\* builtin_message_and_divert: the number of annotations added to the
\* message, and the divert.
builtin_message_and_divert(frames) ==
    LET builtin == current_builtin(frames)
        is_special_builtin == IF builtin # None THEN builtin[1].is_special ELSE FALSE
    IN  <<IF builtin # None THEN 1 ELSE 0,
          IF is_special_builtin THEN Break(Interrupt(None)) ELSE Continue>>

\* What a step of this part leaves alone besides the stack and `answer`.
BuiltinFrame ==
    /\ UNCHANGED <<exit_status, caught, run, done, owed, program, exec, simple>>
    /\ UNCHANGED <<vars, varvars>>

\* Env::push_frame, and the drop of the guard it returns
Stack_push(f) ==
    /\ Len(env_stack) < MaxFrames
    /\ env_stack' = Append(env_stack, f)
    /\ answer' = NoAnswer
    /\ BuiltinFrame

Stack_pop ==
    /\ env_stack # <<>>
    /\ env_stack' = SubSeq(env_stack, 1, Len(env_stack) - 1)
    /\ answer' = NoAnswer
    /\ BuiltinFrame

\* A built-in reports an error through one of the two functions.
builtin_error_call ==
    /\ answer' = [op |-> "builtin_error", result |-> builtin_error(env_stack)]
    /\ UNCHANGED env_stack
    /\ BuiltinFrame

builtin_message_and_divert_call ==
    /\ answer' = [op |-> "builtin_message_and_divert",
                  result |-> builtin_message_and_divert(env_stack)[2]]
    /\ UNCHANGED env_stack
    /\ BuiltinFrame

----------------------------------------------------------------------------
(* Words and assignments *)

\* enum WordUnit and enum DoubleQuotable: unquoted literal characters, an
\* unquoted backslash escape and a double-quoted string
Unquoted(dq) == <<"Unquoted", dq>>
Literal(c) == <<"Literal", c>>
Backslashed(c) == <<"Backslashed", c>>
DoubleQuote(dqs) == <<"DoubleQuote", dqs>>
WordUnits ==
    {Unquoted(Literal(c)) : c \in {"a", "b", "="}}
    \cup {Unquoted(Backslashed("=")), DoubleQuote(<<Literal("=")>>)}

\* struct Word
Words ==
    [units : UNION {[1..n -> WordUnits] : n \in 0..MaxUnits}, location : {"L1"}]

\* <[WordUnit] as MaybeLiteral>::to_string_if_literal: the characters of the
\* units if every unit is an unquoted literal.
to_string_if_literal(units) ==
    IF \A i \in 1..Len(units) : units[i][1] = "Unquoted" /\ units[i][2][1] = "Literal"
    THEN Some([i \in 1..Len(units) |-> units[i][2][2]])
    ELSE None

position_Last(units) ==
    LET found == {i \in 1..Len(units) : units[i] = Unquoted(Literal("="))}
    IN  IF found = {} THEN None ELSE Some(MaxOf(found) - 1)

\* `word.units.iter().position(|u| u == &Unquoted(Literal('=')))`: the index,
\* counted from 0, of the first unquoted literal equal sign.
position(units) ==
    LET found == {i \in 1..Len(units) : units[i] = Unquoted(Literal("="))}
    IN  IF found = {} THEN None
        ELSE Some((CHOOSE i \in found : \A j \in found : i <= j) - 1)

\* <Assign as TryFrom<Word>>::try_from
try_from(word) ==
    LET eq == position(word.units)
        name == to_string_if_literal(SubSeq(word.units, 1, eq[1]))
        drained == [word EXCEPT !.units = SubSeq(@, eq[1] + 2, Len(@))]
    IN  IF eq # None /\ eq[1] > 0 /\ name # None
        THEN OkOf([name |-> name[1], value |-> Scalar(drained),
                   location |-> word.location])
        ELSE Err(word)

\* A caller converts a word.
try_from_call(word) ==
    /\ answer' = [op |-> "try_from", word |-> word, result |-> try_from(word)]
    /\ UNCHANGED env_stack
    /\ BuiltinFrame

----------------------------------------------------------------------------
(* Assignments in arithmetic expansions *)

\* Variable::new(value): a scalar variable that is neither exported nor
\* read-only.
Variable_new(string) ==
    [value |-> Scalar(string), is_exported |-> FALSE, read_only_location |-> None]

\* convert_error_cause, for the two errors of an evaluation of the model: the
\* error of an assignment becomes AssignReadOnly, a division by zero an
\* ArithError.
convert_error_cause(error) ==
    IF error[1] = "AssignVariableError" THEN <<"AssignReadOnly", error[2]>>
    ELSE <<"ArithError", error[1]>>

\* The expressions of the model: one that assigns the string of a result to
\* a variable, as 3 + (x = 4 * 6) does, and one that divides by zero.
Expressions ==
    {[kind |-> "assign", name |-> "foo", value |-> "24"], [kind |-> "divide"]}

\* expand: the evaluation calls VarEnv::assign_variable for the assignment
\* of the expression, and its error, if any, is converted.
expand(expression) ==
    LET assigns == expression.kind = "assign"
        call == assign(all_variables, contexts, "Global", expression.name,
                       Variable_new(expression.value))
        assign_variable == IF call.result[1] = "Ok" THEN Ok ELSE Err(call.result[2])
        eval == IF ~assigns THEN Err(<<"DivisionByZero">>)
                ELSE IF assign_variable = Ok THEN OkOf(expression.value)
                ELSE Err(<<"AssignVariableError", assign_variable[2]>>)
    IN  /\ all_variables' = IF assigns THEN call.all_variables ELSE all_variables
        /\ contexts' = contexts
        /\ outcome' = [op |-> "expand", expression |-> expression,
                       before |-> all_variables,
                       result |-> IF eval[1] = "Ok" THEN eval
                                  ELSE Err(convert_error_cause(eval[2]))]
        /\ log' = log
        /\ frame' = None
        /\ shadow' = shadow
        /\ UNCHANGED <<vars, envvars>>

----------------------------------------------------------------------------
(* Specification *)

\* The environment of the specifications that do not run traps.
EnvIdle ==
    /\ exit_status = 0
    /\ env_stack = <<>>
    /\ caught = {}
    /\ run = Idle
    /\ done = NoCall
    /\ owed = {}
    /\ program = <<>>
    /\ exec = NotExecuting
    /\ simple = NotRunning
    /\ answer = NoAnswer

\* TrapSet::default() in a process that inherited Default or Ignore for each
\* signal (SIGKILL and SIGSTOP cannot be ignored).
TrapInit ==
    /\ traps = EmptyMap
    /\ os \in [Signals -> {Default, Ignore}]
    /\ os["SIGKILL"] = Default
    /\ os["SIGSTOP"] = Default
    /\ inherited = os
    /\ ret = [op |-> "new", calls |-> 0]
    /\ drain = NoDrain
    /\ all_variables = [n \in Names |-> <<>>]
    /\ contexts = <<Context_new(Regular)>>
    /\ outcome = [op |-> "new"]
    /\ log = <<>>
    /\ frame = None
    /\ shadow = <<<<>>>>
    /\ EnvIdle

\* The signals a trap can be set for.
Trappable == Signals \ {"SIGKILL", "SIGSTOP"}

\* One call of a public method.  `overrides` are the values callers pass for
\* override_ignore; `faulty` is whether the system may reject a call.
TrapStep(overrides, faulty) ==
    /\ UNCHANGED envvars
    /\ \/ \E signal \in Signals, action \in Actions, origin \in Origins,
             override_ignore \in overrides,
             fault \in (IF faulty THEN 0..2 ELSE {0}) :
            set_action(signal, action, origin, override_ignore, fault)
       \/ \E F \in (IF faulty THEN SUBSET Trappable ELSE {{}}) : enter_subshell(F)
       \/ \E signal \in Signals : catch_signal(signal)
       \/ take_caught_signal
       \/ \E ok \in (IF faulty THEN BOOLEAN ELSE {TRUE}) : enable_sigchld_handler(ok)
       \/ \E ok \in (IF faulty THEN BOOLEAN ELSE {TRUE}) : disable_internal_handlers(ok)

\* Any caller, any system.
TrapNext == TrapStep(BOOLEAN, TRUE)
TrapSpec == TrapInit /\ [][TrapNext]_vars

\* A system whose calls all succeed.
TrapNextOk == TrapStep(BOOLEAN, FALSE)
TrapSpecOk == TrapInit /\ [][TrapNextOk]_vars

\* Callers that never pass override_ignore = true (a non-interactive shell).
TrapNextNoOverride == TrapStep({FALSE}, TRUE)
TrapSpecNoOverride == TrapInit /\ [][TrapNextNoOverride]_vars

\* VariableSet::default(), in a shell whose trap set is never touched.
VarInit ==
    /\ all_variables = [n \in Names |-> <<>>]
    /\ contexts = <<Context_new(Regular)>>
    /\ outcome = [op |-> "new"]
    /\ log = <<>>
    /\ frame = None
    /\ shadow = <<<<>>>>
    /\ EnvIdle
    /\ traps = EmptyMap
    /\ os = [s \in Signals |-> Default]
    /\ inherited = os
    /\ ret = [op |-> "new", calls |-> 0]
    /\ drain = NoDrain

\* One call on the variable set: callers assign to `names` variables taken
\* from `values`.
VarStep(names, values, logging) ==
    \/ \E scope \in Scopes, name \in names, value \in values :
         assign_call(scope, name, value, logging)
    \/ \E type \in ContextTypes : push_context(type)
    \/ pop_context

\* The variables callers assign in the specifications below.
Unexported == {v \in Variables : ~v.is_exported}
FirstLocation == {v \in Variables : v.read_only_location # Some("L2")}

\* One name; variables that are not exported.
VarNext == VarStep({"foo"}, Unexported, FALSE)
VarSpec == VarInit /\ [][VarNext]_varvars

\* One name; variables that may be exported and are never read-only.
VarNextExport ==
    VarStep({"foo"}, {v \in Variables : v.read_only_location = None}, FALSE)
VarSpecExport == VarInit /\ [][VarNextExport]_varvars

\* One name, with the history of the assignments.
VarNextLog == VarStep({"foo"}, Unexported \cap FirstLocation, TRUE)
VarSpecLog == VarInit /\ [][VarNextLog]_varvars

\* Two names, each either a plain or a read-only variable.
VarNextTwo ==
    VarStep(Names, {v \in Unexported \cap FirstLocation : v.value = "a"}, FALSE)
VarSpecTwo == VarInit /\ [][VarNextTwo]_varvars

\* One name and one variable, and callers that set the positional parameters.
VarNextParams ==
    \/ VarStep({"foo"}, {v \in Unexported \cap FirstLocation :
                            v.value = "a" /\ v.read_only_location = None}, FALSE)
    \/ \E array \in Arrays : positional_params_mut(array)
VarSpecParams == VarInit /\ [][VarNextParams]_varvars

\* Two names and callers that ask for the environment: foo is assigned
\* scalars, exported or not, one of them with a null byte; bar is an exported
\* array assigned in the global scope.
EnvScalars ==
    {[value |-> Scalar(<<"v">>), is_exported |-> e, read_only_location |-> None] :
        e \in BOOLEAN}
    \cup {[value |-> Scalar(<<NUL>>), is_exported |-> TRUE,
           read_only_location |-> None]}
EnvArray ==
    [value |-> Array(<<<<"v">>, <<"w">>>>), is_exported |-> TRUE,
     read_only_location |-> None]
VarNextEnv ==
    \/ VarStep({"foo"}, EnvScalars, FALSE)
    \/ assign_call("Global", "bar", EnvArray, FALSE)
    \/ env_c_strings_call
VarSpecEnv == VarInit /\ [][VarNextEnv]_varvars

\* One name, which callers assign an array that may be exported or
\* read-only, and arithmetic expansions.
ArithVariables ==
    [value : {Array(<<"a">>)}, is_exported : BOOLEAN,
     read_only_location : {None, Some("L1")}]
VarNextArith ==
    \/ VarStep({"foo"}, ArithVariables, FALSE)
    \/ \E expression \in Expressions : expand(expression)
VarSpecArith == VarInit /\ [][VarNextArith]_varvars

\* SIGUSR1 has the command trap `c`; SIGCHLD has the internal handler and a
\* trap with `action`, which the user set after the handler was enabled.
RunStart(c, action) ==
    /\ traps = [s \in {"SIGUSR1", "SIGCHLD"} |->
               [current_setting |->
                    UserSpecified([action |-> IF s = "SIGUSR1" THEN Command(c)
                                                               ELSE action,
                                   origin |-> 1, pending |-> FALSE]),
                parent_setting |-> None,
                internal_handler_enabled |-> s = "SIGCHLD"]]
    /\ os = [s \in Signals |-> IF s \in {"SIGUSR1", "SIGCHLD"} THEN Catch ELSE Default]
    /\ inherited = [s \in Signals |-> Default]
    /\ ret = [op |-> "new", calls |-> 0]
    /\ drain = NoDrain
    /\ all_variables = [n \in Names |-> <<>>]
    /\ contexts = <<Context_new(Regular)>>
    /\ outcome = [op |-> "new"]
    /\ log = <<>>
    /\ frame = None
    /\ shadow = <<<<>>>>

\* Running traps, whatever the two traps are.
RunInit ==
    /\ \E c \in 1..NumCommands, action \in Actions : RunStart(c, action)
    /\ EnvIdle

RunNext ==
    /\ UNCHANGED <<program, exec, simple, answer>>
    /\ \/ \E signal \in Signals : raise(signal)
       \/ \E f \in Frames : push_frame(f)
       \/ pop_frame
       \/ \E status \in ExitStatuses : simple_command(status)
       \/ run_traps_for_caught_signals
       \/ poll_signals
       \/ reentrance_check
       \/ next_trap
       \/ trap_continue
       \/ \E n \in ExitStatuses : return_builtin(n)
       \/ \E operand \in {None} \cup {Some(n) : n \in ExitStatuses} : exit_builtin(operand)
RunSpec == RunInit /\ [][RunNext]_<<vars, envvars>>

\* A signal is caught while a Trap frame is on the stack: during a trap
\* command the function runs, or under the frame of a caller.
raise_in_trap(signal) ==
    /\ in_trap(env_stack)
    /\ raise(signal)

\* Running traps when signals arrive only while a Trap frame is on the stack.
RunNextInTrap ==
    /\ UNCHANGED <<program, exec, simple, answer>>
    /\ \/ \E signal \in Signals : raise_in_trap(signal)
       \/ \E f \in Frames : push_frame(f)
       \/ pop_frame
       \/ \E status \in ExitStatuses : simple_command(status)
       \/ run_traps_for_caught_signals
       \/ poll_signals
       \/ reentrance_check
       \/ next_trap
       \/ trap_continue
       \/ \E n \in ExitStatuses : return_builtin(n)
       \/ \E operand \in {None} \cup {Some(n) : n \in ExitStatuses} : exit_builtin(operand)
RunSpecInTrap == RunInit /\ [][RunNextInTrap]_<<vars, envvars>>

\* Simple commands, one after the other, in an environment without traps.
CommandInit ==
    /\ traps = EmptyMap
    /\ os = [s \in Signals |-> Default]
    /\ inherited = os
    /\ ret = [op |-> "new", calls |-> 0]
    /\ drain = NoDrain
    /\ all_variables = [n \in Names |-> <<>>]
    /\ contexts = <<Context_new(Regular)>>
    /\ outcome = [op |-> "new"]
    /\ log = <<>>
    /\ frame = None
    /\ shadow = <<<<>>>>
    /\ EnvIdle

CommandNext ==
    \/ \E expansion \in Expansions, target \in Targets :
         SimpleCommand_execute(expansion, target)
    \/ \E fork \in {<<"Ok">>} \cup {<<"Err", e>> : e \in Errnos} : run_in_subshell(fork)
    \/ \E failure \in {<<"Err", e>> : e \in Errnos} : execve(failure)
    \/ \E status \in {<<"Ok", n>> : n \in ExitStatuses} : execve(status)
    \/ subshell_exit
CommandSpec == CommandInit /\ [][CommandNext]_<<vars, varvars, envvars>>

\* Built-ins that report errors under any stack of frames.
BuiltinNext ==
    \/ \E f \in StackFrames : Stack_push(f)
    \/ Stack_pop
    \/ builtin_error_call
    \/ builtin_message_and_divert_call
BuiltinSpec == CommandInit /\ [][BuiltinNext]_<<vars, varvars, envvars>>

\* The parser converts words into assignments.
AssignNext == \E word \in Words : try_from_call(word)
AssignSpec == CommandInit /\ [][AssignNext]_<<vars, varvars, envvars>>

\* The engine executes a list while the system catches signals, both of
\* which have a command trap.
EngineInit ==
    /\ RunStart(1, Command(1))
    /\ exit_status = 0
    /\ env_stack = <<>>
    /\ caught = {}
    /\ run = Idle
    /\ done = NoCall
    /\ owed = {}
    /\ program \in Lists
    /\ exec = List_execute
    /\ simple = NotRunning
    /\ answer = NoAnswer

EngineNext ==
    /\ UNCHANGED <<simple, answer>>
    /\ \/ begin_command
       \/ end_command
       \/ List_return
       \/ \E signal \in Signals : raise_during(signal)
EngineSpec == EngineInit /\ [][EngineNext]_<<vars, envvars>>

----------------------------------------------------------------------------
(* Properties of the trap set *)

\* The disposition a Setting requires, as the specification words it.
RequiredDisposition(setting) ==
    IF setting[1] = "InitiallyDefaulted" THEN "Default"
    ELSE IF setting[1] = "InitiallyIgnored" THEN "Ignore"
    ELSE IF setting[2].action[1] = "Default" THEN "Default"
    ELSE IF setting[2].action[1] = "Ignore" THEN "Ignore"
    ELSE "Catch"

\* s has a user-specified trap whose action is of the given kind.
HasTrap(t, s, kind) ==
    /\ s \in DOMAIN t
    /\ t[s].current_setting[1] = "UserSpecified"
    /\ t[s].current_setting[2].action[1] = kind

InternalHandlerEnabled(t, s) ==
    s \in DOMAIN t /\ t[s].internal_handler_enabled

\* C1 (under TrapSpecOk, where every OS call succeeds): for every signal with
\* an entry in the trap set, the OS disposition is Catch if the internal
\* handler is enabled, and otherwise the disposition of the current Setting.
C1_OsDispositionFollowsSetting ==
    \A s \in DOMAIN traps :
        os[s] = IF traps[s].internal_handler_enabled THEN "Catch"
                ELSE RequiredDisposition(traps[s].current_setting)

\* C1's case: an Ignore trap set for SIGCHLD while its internal handler is
\* enabled (the OS keeps Catch), beside a Command trap for SIGUSR1.
C1_Witness ==
    /\ InternalHandlerEnabled(traps, "SIGCHLD")
    /\ HasTrap(traps, "SIGCHLD", "Ignore")
    /\ os["SIGCHLD"] = "Catch"
    /\ HasTrap(traps, "SIGUSR1", "Command")
    /\ os["SIGUSR1"] = "Catch"

\* C2: enter_subshell resets exactly the Command traps: a signal whose
\* current setting was a Command trap reports (None, Some(that trap state))
\* afterwards; a signal whose current setting was a user-specified Ignore or
\* Default keeps its current state and has no parent state.
C2_SubshellResetsCommandTraps ==
    [][ret'.op = "enter_subshell" =>
         \A s \in DOMAIN traps :
            /\ HasTrap(traps, s, "Command") =>
                 get_state(traps', s) = <<None, Some(traps[s].current_setting[2])>>
            /\ (HasTrap(traps, s, "Ignore") \/ HasTrap(traps, s, "Default")) =>
                 get_state(traps', s) = <<Some(traps[s].current_setting[2]), None>>
      ]_vars

\* C2's case: after enter_subshell, SIGUSR1 reports a parent state (its
\* Command trap was reset) and SIGCHLD still has its Ignore trap.
C2_Witness ==
    /\ ret.op = "enter_subshell"
    /\ get_state(traps, "SIGUSR1")[1] = None
    /\ get_state(traps, "SIGUSR1")[2] # None
    /\ HasTrap(traps, "SIGCHLD", "Ignore")

\* The part of C3 that does not depend on the value returned: a signal
\* inherited as ignored has no user trap and its disposition is Ignore, or
\* Catch while the internal handler is enabled.
StaysUntrapped(s) ==
    /\ get_state(traps, s) = <<None, None>>
    /\ \/ os[s] = "Ignore"
       \/ os[s] = "Catch" /\ InternalHandlerEnabled(traps, s)

\* C3 as stated (under TrapSpecNoOverride, where every set_action passes
\* override_ignore = false): for a signal inherited as ignored, every
\* set_action returns Err(InitiallyIgnored), get_state stays (None, None) and
\* the OS disposition is never Default.
C3_AlwaysInitiallyIgnored ==
    \A s \in Signals :
        inherited[s] = "Ignore" =>
            /\ StaysUntrapped(s)
            /\ (ret.op = "set_action" /\ ret.signal = s) =>
                   ret.result = Err("InitiallyIgnored")

\* C3 as amended: the same, except that the set_action call that finds no
\* entry and whose probing OS call is rejected returns Err(SystemError).
C3_IgnoredSignalStaysUntrapped ==
    \A s \in Signals :
        inherited[s] = "Ignore" =>
            /\ StaysUntrapped(s)
            /\ (ret.op = "set_action" /\ ret.signal = s) =>
                   \/ ret.result = Err("InitiallyIgnored")
                   \/ /\ ret.result = Err("SystemError")
                      /\ ret.calls = 1
                      /\ s \notin DOMAIN traps

\* C3's case: a repeated set_action (the entry exists, so no OS call is made)
\* on an ignored SIGCHLD whose internal handler is enabled.
C3_Witness ==
    /\ ret.op = "set_action"
    /\ ret.signal = "SIGCHLD"
    /\ inherited["SIGCHLD"] = "Ignore"
    /\ ret.result = Err("InitiallyIgnored")
    /\ ret.calls = 0
    /\ InternalHandlerEnabled(traps, "SIGCHLD")
    /\ os["SIGCHLD"] = "Catch"

\* C4: set_action for SIGKILL or SIGSTOP returns Err(SIGKILL) or Err(SIGSTOP),
\* makes no OS call and leaves the trap set, parent settings included, and
\* the dispositions unchanged.
C4_KillAndStopRejected ==
    [][(ret'.op = "set_action" /\ ret'.signal \in {"SIGKILL", "SIGSTOP"}) =>
         /\ ret'.result = Err(ret'.signal)
         /\ ret'.calls = 0
         /\ traps' = traps
         /\ os' = os
      ]_vars

\* C4's case: set_action on SIGSTOP in a state that holds a parent setting.
C4_Witness ==
    /\ ret.op = "set_action"
    /\ ret.signal = "SIGSTOP"
    /\ ret.result = Err("SIGSTOP")
    /\ WithParent(traps) # {}

\* C5: after a successful set_action no signal has a parent state.
C5_SetActionClearsAllParents ==
    (ret.op = "set_action" /\ ret.result = Ok) =>
        \A s \in Signals : get_state(traps, s)[2] = None

\* C5's case: a successful set_action on SIGUSR1 has discarded the parent
\* state of SIGCHLD, which now reports (None, None).
C5_Witness ==
    /\ ret.op = "set_action"
    /\ ret.signal = "SIGUSR1"
    /\ ret.result = Ok
    /\ "SIGCHLD" \in ret.dropped
    /\ get_state(traps, "SIGCHLD") = <<None, None>>

C7_CatchSignalFrame ==
    [][ret'.op = "catch_signal" =>
         LET sig == ret'.signal IN
         /\ os' = os
         /\ DOMAIN traps' = DOMAIN traps
         /\ \A s \in DOMAIN traps : s # sig => traps'[s] = traps[s]
         /\ IF sig \in DOMAIN traps /\ traps[sig].current_setting[1] = "UserSpecified"
            THEN /\ traps'[sig].current_setting[2].pending = TRUE
                 /\ traps'[sig].current_setting[2].action
                      = traps[sig].current_setting[2].action
                 /\ traps'[sig].current_setting[2].origin
                      = traps[sig].current_setting[2].origin
                 /\ traps'[sig].parent_setting = traps[sig].parent_setting
                 /\ traps'[sig].internal_handler_enabled
                      = traps[sig].internal_handler_enabled
            ELSE traps' = traps
      ]_vars

\* C7's case: SIGUSR1 was caught and is pending while SIGCHLD has a trap that
\* is not pending.
C7_Witness ==
    /\ ret.op = "catch_signal"
    /\ ret.signal = "SIGUSR1"
    /\ "SIGUSR1" \in Pending(traps)
    /\ HasTrap(traps, "SIGCHLD", "Command")
    /\ "SIGCHLD" \notin Pending(traps)

C9_DisableRestoresDisposition ==
    [][ret'.op = "disable_internal_handlers" =>
         IF InternalHandlerEnabled(traps, "SIGCHLD")
         THEN /\ ret'.calls = 1
              /\ IF ret'.result = Ok
                 THEN /\ os'["SIGCHLD"]
                           = RequiredDisposition(traps["SIGCHLD"].current_setting)
                      /\ \A s \in Signals \ {"SIGCHLD"} : os'[s] = os[s]
                      /\ traps' = [traps EXCEPT !["SIGCHLD"].internal_handler_enabled = FALSE]
                 ELSE traps' = traps /\ os' = os
         ELSE /\ ret'.result = Ok
              /\ ret'.calls = 0
              /\ traps' = traps
              /\ os' = os
      ]_vars

\* C9's case: the handler was disabled for a SIGCHLD inherited as ignored
\* with no user trap, and the disposition is Ignore again.
C9_Witness ==
    /\ ret.op = "disable_internal_handlers"
    /\ ret.result = Ok
    /\ ret.calls = 1
    /\ inherited["SIGCHLD"] = "Ignore"
    /\ traps["SIGCHLD"].current_setting = <<"InitiallyIgnored">>
    /\ os["SIGCHLD"] = "Ignore"

\* C10: enable_sigchld_handler called while the internal handler is enabled
\* makes no OS call and changes neither the trap set nor the dispositions;
\* called while it is not enabled (also after a disable) and returning Ok,
\* it makes one OS call that installs Catch for SIGCHLD and sets the flag.
C10_EnableIdempotent ==
    [][ret'.op = "enable_sigchld_handler" =>
         IF InternalHandlerEnabled(traps, "SIGCHLD")
         THEN /\ ret'.result = Ok
              /\ ret'.calls = 0
              /\ traps' = traps
              /\ os' = os
         ELSE /\ ret'.calls = 1
              /\ ret'.result = Ok =>
                   /\ os'["SIGCHLD"] = "Catch"
                   /\ InternalHandlerEnabled(traps', "SIGCHLD")
      ]_vars

\* C10's case: a second enable_sigchld_handler call that found the handler
\* enabled.
C10_Witness ==
    /\ ret.op = "enable_sigchld_handler"
    /\ ret.calls = 0
    /\ InternalHandlerEnabled(traps, "SIGCHLD")
    /\ os["SIGCHLD"] = "Catch"

----------------------------------------------------------------------------
(* Properties of the variable set *)

\* The assignment to `name` the history has last, if any.
MostRecent(name) ==
    LET Mine(e) == e.name = name
        mine == SelectSeq(log, Mine)
    IN  IF mine = <<>> THEN None ELSE Some(Last(mine).variable)

\* C11: after any sequence of push_context, successful assign and
\* pop_context, get(name) is the variable that was assigned most recently
\* among those whose context has not been popped, and None if there is none.
C11_GetReturnsMostRecent ==
    \A name \in Names : get(all_variables, name) = MostRecent(name)

\* A context was popped and two older variables of foo remain, in two
\* contexts; the upper one is visible again.
C11_Witness ==
    /\ outcome.op = "pop_context"
    /\ outcome.result = Ok
    /\ Len(contexts) = 2
    /\ Len(all_variables["foo"]) = 2
    /\ all_variables["foo"][1].variable # all_variables["foo"][2].variable
    /\ MostRecent("foo") = Some(all_variables["foo"][2].variable)

\* C12: a temporary scope is transparent once it has ended.  When a context
\* is popped and, since it was pushed, the only calls were assignments in the
\* scope of that context (Volatile for a Volatile context, Local for a
\* Regular one), get returns for every name what it returned before the push.
C12_TemporaryScopeTransparent ==
    [][(/\ outcome'.op = "pop_context"
        /\ outcome'.result = Ok
        /\ frame # None)
       => \A name \in Names : get(all_variables', name) = frame[1].saved[name]]_varvars

\* Such a context was popped after an assignment in it succeeded, and a
\* variable of foo from before the push is visible.
C12_Witness ==
    /\ outcome.op = "pop_context"
    /\ outcome.result = Ok
    /\ outcome.framed
    /\ get(all_variables, "foo") # None
    /\ get(all_variables, "bar") = None

\* The context an assignment is meant for, as the specification words it:
\* Global is the context of the topmost variable of the name that is not in
\* a Volatile context, or the base context; Local is the topmost Regular
\* context; Volatile is the top context.
Target(scope, stack, ctxs) ==
    IF scope = "Global"
    THEN LET owners == {stack[i].context_index : i \in 1..Len(stack)}
             regular == {c \in owners : ctxs[c + 1].type = Regular}
         IN  IF regular = {} THEN 0
             ELSE CHOOSE c \in regular : \A d \in regular : d <= c
    ELSE IF scope = "Local"
    THEN CHOOSE c \in 0..(Len(ctxs) - 1) :
             /\ ctxs[c + 1].type = Regular
             /\ \A d \in (c + 1)..(Len(ctxs) - 1) : ctxs[d + 1].type = Volatile
    ELSE Len(ctxs) - 1

\* The variables of a stack that belong to the context `index`.
Owned(stack, index) ==
    {stack[i].variable : i \in {j \in 1..Len(stack) : stack[j].context_index = index}}

\* C13: in every state, an assign whose target context holds a read-only
\* variable of the name fails with a ReadOnlyError made of the name, that
\* variable's read_only_location and the rejected variable; and whatever the
\* scope, a context that held a read-only variable of the name holds nothing
\* else for that name after the call.
C13_ReadOnlyBindingRejectsAssign ==
    \A scope \in Scopes, name \in Names, value \in Variables :
        LET stack == all_variables[name]
            call == assign(all_variables, contexts, scope, name, value)
        IN  /\ \A old \in Owned(stack, Target(scope, stack, contexts)) :
                  old.read_only_location # None =>
                      call.result = Err([name |-> name,
                                         read_only_location |-> old.read_only_location[1],
                                         new_value |-> value])
            /\ \A index \in 0..(Len(contexts) - 1) :
                  \A old \in Owned(stack, index) :
                      old.read_only_location # None =>
                          Owned(call.all_variables[name], index) \subseteq {old}

\* A Local assignment was refused by a read-only variable of a pushed Regular
\* context, which hides a read-only variable made so at another location.
C13_Witness ==
    /\ outcome.op = "assign"
    /\ outcome.scope = "Local"
    /\ outcome.result[1] = "Err"
    /\ outcome.target = 1
    /\ Len(all_variables["foo"]) = 2
    /\ all_variables["foo"][1].variable.read_only_location = Some("L1")
    /\ outcome.result[2].read_only_location = "L2"

\* C14: in every state whose top context is Volatile, when a Global
\* assignment of a name would fail with a ReadOnlyError, every Volatile
\* assignment of that name fails with a ReadOnlyError too, and reports the
\* same read_only_location.
C14_VolatileCannotHideReadOnly ==
    Last(contexts).type = Volatile =>
        \A name \in Names, value \in Variables, other \in Variables :
            LET global == assign(all_variables, contexts, "Global", name, value)
                volatile == assign(all_variables, contexts, "Volatile", name, other)
            IN  global.result[1] = "Err" =>
                    /\ volatile.result[1] = "Err"
                    /\ volatile.result[2].read_only_location =
                           global.result[2].read_only_location
                    /\ volatile.all_variables = all_variables

\* A Volatile assignment has just been refused in a Volatile context pushed
\* over a Regular context whose variable is read-only; the Global assignment
\* fails there too.
C14_Witness ==
    /\ outcome.op = "assign"
    /\ outcome.scope = "Volatile"
    /\ outcome.result[1] = "Err"
    /\ Len(contexts) = 3
    /\ contexts[2].type = Regular
    /\ contexts[3].type = Volatile
    /\ Len(all_variables["foo"]) = 2
    /\ assign(all_variables, contexts, "Global", "foo", outcome.value).result
           = outcome.result

\* C15: an assign that returns a ReadOnlyError changes nothing.  In every
\* state, for every scope, name and new variable, when the call fails the
\* stacks of all names are what they were: no variable of any context is
\* removed or changed, and get returns for every name what it returned.
C15_ReadOnlyErrorChangesNothing ==
    \A scope \in Scopes, name \in Names, value \in Variables :
        LET call == assign(all_variables, contexts, scope, name, value)
        IN  call.result[1] = "Err" =>
                /\ call.all_variables = all_variables
                /\ \A n \in Names :
                       get(call.all_variables, n) = get(all_variables, n)

\* A Global assignment of a name with variables in two contexts has just
\* failed, past the loop that removes the variables above the target, while
\* the other name has a variable in the Volatile context on top.
C15_Witness ==
    /\ outcome.op = "assign"
    /\ outcome.scope = "Global"
    /\ outcome.result[1] = "Err"
    /\ outcome.target = 1
    /\ Len(all_variables[outcome.name]) = 2
    /\ Len(contexts) = 3
    /\ contexts[3].type = Volatile
    /\ \E n \in Names \ {outcome.name} :
           /\ all_variables[n] # <<>>
           /\ Last(all_variables[n]).context_index = 2

\* The items of a stack that belong to contexts below `index`.
Under(stack, index) ==
    LET Lower(vic) == vic.context_index < index
    IN  SelectSeq(stack, Lower)

\* The variable set after the contexts from `len` up have been popped one by
\* one, the top context first.
RECURSIVE PoppedTo(_, _, _)
PoppedTo(av, depth, len) ==
    IF depth <= len THEN av
    ELSE PoppedTo([n \in Names |-> pop_stack(av[n], depth - 1)], depth - 1, len)

\* Whether `got` is the variable an assignment of `value` defines: its value
\* and read-only location, exported if `value` is.
IsNew(got, value) ==
    /\ got # None
    /\ got[1].value = value.value
    /\ got[1].read_only_location = value.read_only_location
    /\ value.is_exported => got[1].is_exported

\* What a successful assignment of `value` in `scope` must leave in the
\* stack of the name: the variables below the target untouched, and on top
\* of them the new variable in the target context.
StoredIn(scope, stack, ctxs, value, after) ==
    LET target == Target(scope, stack, ctxs)
    IN  /\ Len(after) = Len(Under(stack, target)) + 1
        /\ SubSeq(after, 1, Len(after) - 1) = Under(stack, target)
        /\ after[Len(after)].context_index = target
        /\ IsNew(Some(after[Len(after)].variable), value)

\* C16: a successful Global assignment of a name stores the variable in the
\* context of the name's topmost variable that is not in a Volatile context,
\* or in the base context when there is none, and discards the variables of
\* the name in the contexts above; get returns the new variable at once and
\* still does when every context above the target has been popped.
C16_GlobalAssignTarget ==
    \A name \in Names, value \in Variables :
        LET stack == all_variables[name]
            call == assign(all_variables, contexts, "Global", name, value)
            after == call.all_variables
            target == Target("Global", stack, contexts)
        IN  call.result[1] = "Ok" =>
                /\ StoredIn("Global", stack, contexts, value, after[name])
                /\ \A n \in Names \ {name} : after[n] = all_variables[n]
                /\ IsNew(get(after, name), value)
                /\ IsNew(get(PoppedTo(after, Len(contexts), target + 1), name),
                         value)

\* A Global assignment has just replaced the variable of a pushed Regular
\* context and discarded the one of the Volatile context above it.
C16_Witness ==
    /\ outcome.op = "assign"
    /\ outcome.scope = "Global"
    /\ outcome.result[1] = "Ok"
    /\ outcome.result[2] # None
    /\ outcome.target = 1
    /\ outcome.removed = 1
    /\ Len(contexts) = 3
    /\ Len(all_variables["foo"]) = 2

\* C17: a successful Local assignment of a name stores the variable in the
\* topmost Regular context and discards the variables of the name in the
\* Volatile contexts above it; the variables of the name in lower contexts
\* are untouched, get returns the new variable at once and when the contexts
\* above the target have been popped, and once the target context is popped
\* too the variable below (if any) is visible again.
C17_LocalAssignTarget ==
    \A name \in Names, value \in Variables :
        LET stack == all_variables[name]
            call == assign(all_variables, contexts, "Local", name, value)
            after == call.all_variables
            target == Target("Local", stack, contexts)
            lower == Under(stack, target)
        IN  call.result[1] = "Ok" =>
                /\ contexts[target + 1].type = Regular
                /\ StoredIn("Local", stack, contexts, value, after[name])
                /\ \A n \in Names \ {name} : after[n] = all_variables[n]
                /\ IsNew(get(after, name), value)
                /\ IsNew(get(PoppedTo(after, Len(contexts), target + 1), name),
                         value)
                /\ target > 0 =>
                       get(PoppedTo(after, Len(contexts), target), name) =
                           IF lower = <<>> THEN None
                           ELSE Some(lower[Len(lower)].variable)

\* A Local assignment has just stored a variable in a pushed Regular context,
\* above a variable of the base context, and discarded the variable of the
\* Volatile context on top.
C17_Witness ==
    /\ outcome.op = "assign"
    /\ outcome.scope = "Local"
    /\ outcome.result[1] = "Ok"
    /\ outcome.target = 1
    /\ outcome.removed = 1
    /\ Len(contexts) = 3
    /\ contexts[3].type = Volatile
    /\ Len(all_variables["foo"]) = 2
    /\ all_variables["foo"][1].context_index = 0

\* C18: once exported, a variable stays exported across reassignment.  In
\* every state, for every scope, when assign replaces the variable the target
\* context holds for the name, the variable it stores there is exported if
\* the replaced variable or the new variable is exported.
C18_ExportSurvivesReassignment ==
    \A scope \in Scopes, name \in Names, value \in Variables :
        LET stack == all_variables[name]
            call == assign(all_variables, contexts, scope, name, value)
        IN  (call.result[1] = "Ok" /\ call.result[2] # None) =>
                \A old \in Owned(stack, call.target) :
                    \A new \in Owned(call.all_variables[name], call.target) :
                        (old.is_exported \/ value.is_exported) => new.is_exported

\* An assignment of a variable that is not exported has just replaced, in a
\* pushed context, a variable that was exported; the stored variable has the
\* new value and is exported.
C18_Witness ==
    /\ outcome.op = "assign"
    /\ outcome.result[1] = "Ok"
    /\ outcome.result[2] # None
    /\ outcome.result[2][1].is_exported
    /\ ~outcome.value.is_exported
    /\ outcome.result[2][1].value # outcome.value.value
    /\ outcome.target = 1
    /\ get(all_variables, "foo") = Some([outcome.value EXCEPT !.is_exported = TRUE])

\* C19: requesting the Volatile scope when the top context is not Volatile is
\* fatal: an assign with Scope::Volatile made while the top context is
\* Regular has panicked, it has returned neither Ok nor a ReadOnlyError.
\* (assign does not change the contexts, so the top context after the call is
\* the one the call saw.)
C19_VolatileScopeAlwaysPanics ==
    (/\ outcome.op = "assign"
     /\ outcome.scope = "Volatile"
     /\ Last(contexts).type = Regular)
    => outcome.result = Panic

\* C20: the stack of contexts is never empty and its bottom is the Regular
\* base context.  Every call leaves at least one context with the base
\* context at the bottom, and a pop_context made when only the base context
\* remains panics and removes nothing.
C20_BaseContextStays ==
    [][/\ Len(contexts') >= 1
       /\ contexts'[1].type = Regular
       /\ (outcome'.op = "pop_context" /\ Len(contexts) = 1) =>
              /\ outcome'.result = Panic
              /\ contexts' = contexts
              /\ all_variables' = all_variables]_varvars

\* pop_context has just panicked on a variable set with only its base
\* context, which still holds a variable.
C20_Witness ==
    /\ outcome.op = "pop_context"
    /\ outcome.result = Panic
    /\ Len(contexts) = 1
    /\ all_variables["foo"] # <<>>

\* C21: positional_params and positional_params_mut refer to the parameters
\* of the topmost Regular context.  positional_params always returns an array
\* that is neither exported nor read-only and holds what callers stored last
\* while the present topmost Regular context was the topmost Regular one, and
\* the empty array if they stored nothing.  So pushing or popping a Volatile
\* context changes nothing, a newly pushed Regular context starts empty, and
\* popping it brings the parameters of the context below back.
C21_PositionalParamsOfTopRegular ==
    /\ positional_params(contexts) =
           [value |-> shadow[Len(shadow)], is_exported |-> FALSE,
            read_only_location |-> None]
    /\ outcome.op = "push_context" =>
           IF outcome.type = Regular
           THEN positional_params(contexts).value = <<>>
           ELSE positional_params(contexts) =
                    positional_params(SubSeq(contexts, 1, Len(contexts) - 1))

\* A Volatile context was popped after parameters were stored while it was on
\* top of a pushed Regular context; they are still there, and the base
\* context keeps other parameters.
C21_Witness ==
    /\ outcome.op = "pop_context"
    /\ outcome.result = Ok
    /\ Len(contexts) = 2
    /\ contexts[2].type = Regular
    /\ contexts[2].positional_params.value = <<"1", "2">>
    /\ contexts[1].positional_params.value = <<"1">>
    /\ positional_params(contexts).value = <<"1", "2">>

\* The binding of `name` that get returns is exported and has no null byte.
InEnvironment(name) ==
    /\ all_variables[name] # <<>>
    /\ LET var == all_variables[name][Len(all_variables[name])].variable IN
       /\ var.is_exported
       /\ IF var.value[1] = "Scalar"
          THEN \A i \in 1..Len(var.value[2]) : var.value[2][i] # NUL
          ELSE \A k \in 1..Len(var.value[2]) :
                  \A i \in 1..Len(var.value[2][k]) : var.value[2][k][i] # NUL

\* v1:v2:...
RECURSIVE ColonSeparated(_)
ColonSeparated(strings) ==
    IF Len(strings) = 0 THEN <<>>
    ELSE IF Len(strings) = 1 THEN strings[1]
    ELSE ColonSeparated(SubSeq(strings, 1, Len(strings) - 1))
             \o <<":">> \o strings[Len(strings)]

\* name=value or name=v1:v2:... for the binding of `name` that get returns.
EnvironmentEntry(name) ==
    LET var == all_variables[name][Len(all_variables[name])].variable IN
    Bytes(name) \o <<"=">> \o
        (IF var.value[1] = "Scalar" THEN var.value[2]
                                    ELSE ColonSeparated(var.value[2]))

\* `entry` starts with name=.
IsEntryOf(entry, name) ==
    /\ Len(entry) > Len(Bytes(name))
    /\ SubSeq(entry, 1, Len(Bytes(name)) + 1) = Bytes(name) \o <<"=">>

\* C22: env_c_strings yields exactly one entry, name=value for a scalar and
\* name=v1:v2:... for an array, for each name whose visible binding is
\* exported and has no null byte, and no entry for any other name, also when
\* a hidden lower binding of the name is exported.
C22_EnvironmentOfVisibleExports ==
    outcome.op = "env_c_strings" =>
        /\ \A name \in Names :
              Cardinality({i \in 1..Len(outcome.result) :
                              IsEntryOf(outcome.result[i], name)})
                  = IF InEnvironment(name) THEN 1 ELSE 0
        /\ \A name \in Names :
              InEnvironment(name) =>
                  \E i \in 1..Len(outcome.result) :
                      outcome.result[i] = EnvironmentEntry(name)
        /\ \A i \in 1..Len(outcome.result) :
              \E name \in Names : IsEntryOf(outcome.result[i], name)

\* The environment holds the array bar and nothing for foo, whose visible
\* binding is not exported and hides an exported one.
C22_Witness ==
    /\ outcome.op = "env_c_strings"
    /\ outcome.result = <<<<"b", "a", "r", "=", "v", ":", "w">>>>
    /\ Len(all_variables["foo"]) = 2
    /\ all_variables["foo"][1].variable.is_exported
    /\ ~all_variables["foo"][1].variable.value[2] = <<NUL>>
    /\ ~all_variables["foo"][2].variable.is_exported

----------------------------------------------------------------------------
(* Properties of running traps *)

\* The caller's stack holds a Trap frame.  (While no call is in progress the
\* stack is the caller's.)
CalledInTrap == \E i \in DOMAIN env_stack : env_stack[i] = "Trap"

\* C23: a call of run_traps_for_caught_signals made while the stack holds a
\* Trap frame returns Continue(()) without having dispatched a trap command
\* and without having taken a signal from the trap set: the signals that
\* were pending, and those reported by the system during the call that have
\* a trap, are pending when it returns; the exit status is untouched.
C23_NoReentrance ==
    (done.result # None /\ CalledInTrap) =>
        /\ done.result = <<"Continue">>
        /\ done.ran = <<>>
        /\ done.left = done.had \cup done.polled
        /\ exit_status = done.before

\* Such a call returned with both signals pending, below the frame of a
\* built-in.
C23_Witness ==
    /\ done.result = <<"Continue">>
    /\ env_stack = <<"Trap", "Builtin">>
    /\ done.polled = {"SIGUSR1"}
    /\ done.left = {"SIGUSR1", "SIGCHLD"}
    /\ traps["SIGCHLD"].current_setting[2].action[1] = "Command"

\* The signals with a command trap, and how often the command of `signal`
\* was executed in the call that just returned.
CommandSignals ==
    {s \in DOMAIN traps : traps[s].current_setting[2].action[1] = "Command"}
Executions(signal) ==
    Cardinality({i \in 1..Len(done.ran) : done.ran[i].signal = signal})

\* C24 as stated: a call made with no Trap frame on the stack executes
\* exactly once the command of every signal caught since that command last
\* ran, and executes no other command.
C24_EveryCatchRunsInNextCall ==
    (done.result # None /\ ~CalledInTrap) =>
        \A s \in CommandSignals :
            Executions(s) = IF s \in done.due THEN 1 ELSE 0

\* C24, amended: the same, unless a trap command run in the call yields a
\* Divert.  Then the call has executed no command twice and none without a
\* catch, and a caught signal whose command it has not executed is still
\* pending.
C24_OncePerCatch ==
    (done.result # None /\ ~CalledInTrap) =>
        \A s \in CommandSignals :
            IF done.result = <<"Continue">>
            THEN Executions(s) = IF s \in done.due THEN 1 ELSE 0
            ELSE /\ Executions(s) <= 1
                 /\ Executions(s) = 1 => s \in done.due
                 /\ (s \in done.due /\ Executions(s) = 0) => s \in done.left

\* A call ran both commands, each once, and a later call ran nothing though
\* a signal had been caught during the first.
C24_Witness ==
    /\ done.result = <<"Continue">>
    /\ ~CalledInTrap
    /\ Len(done.ran) = 2
    /\ done.due = {"SIGUSR1", "SIGCHLD"}
    /\ owed = {}

\* C25: when a call of run_traps_for_caught_signals returns Continue(()),
\* that is when no trap command it ran yielded a Divert, the exit status is
\* the one of before the call, and every trap command it ran, the first like
\* the later ones, started with that exit status.
C25_ExitStatusPreserved ==
    done.result = <<"Continue">> =>
        /\ exit_status = done.before
        /\ \A i \in 1..Len(done.ran) : done.ran[i].exit_status = done.before

\* Two trap commands ran in a call made with a non-zero exit status.
C25_Witness ==
    /\ done.result = <<"Continue">>
    /\ Len(done.ran) = 2
    /\ done.before = 2
    /\ exit_status = 2

\* C26: when the last command of a trap command, a built-in, returns a
\* Divert, run_traps_for_caught_signals returns Break(that divert); the exit
\* status is the one the built-in returned, not the one of before the trap;
\* and every signal with a command trap that was pending or reported in this
\* call and whose command the call has not executed is still pending.
C26_DivertPropagates ==
    done.broke # None =>
        /\ done.result = <<"Break", done.broke[1].divert>>
        /\ exit_status = done.broke[1].status
        /\ \A s \in CommandSignals :
              (/\ s \in done.had \cup done.polled
               /\ \A i \in 1..Len(done.ran) : done.ran[i].signal # s)
                  => s \in done.left

\* The first of two caught trap commands returned with a status other than
\* that of before the call; the other signal is still pending.
C26_Witness ==
    /\ done.result = <<"Break", "Return">>
    /\ Len(done.ran) = 1
    /\ done.polled = {"SIGUSR1", "SIGCHLD"}
    /\ done.left # {}
    /\ done.left \subseteq CommandSignals
    /\ done.before = 0
    /\ exit_status = 2

\* C27: when the exit built-in ends a signal trap, the shell ends with the
\* operand of exit if it has one, and otherwise with the exit status that was
\* current just before the trap started, whatever the commands of the trap
\* set it to.
C27_ExitInTrapUsesOuterStatus ==
    done.exit # None =>
        exit_status = IF done.exit[1] = None THEN done.before
                                             ELSE done.exit[1][1]

----------------------------------------------------------------------------
(* Properties of the execution engine *)

\* C29: a List runs its items strictly in source order, each once, and stops
\* at the first item that yields a Divert.  At any moment the items that have
\* returned are the first ones of the list, in order, and none but the last
\* of them yielded a Divert; the item being run is the next one; when the
\* list returns, its result is the Divert of the last item run, or Ok after
\* every item has run without a Divert.
C29_ListInOrderUntilDivert ==
    /\ \A i \in 1..Len(exec.trace) :
          /\ exec.trace[i].item = i
          /\ i < Len(exec.trace) => exec.trace[i].result = <<"Ok">>
    /\ \A i \in 1..Len(exec.begun) : exec.begun[i][1] = i
    /\ Len(exec.begun) \in {Len(exec.trace), Len(exec.trace) + 1}
    /\ exec.stage = "done" =>
          /\ Len(exec.begun) = Len(exec.trace)
          /\ IF \E i \in 1..Len(exec.trace) : exec.trace[i].result # <<"Ok">>
             THEN exec.result = <<exec.trace[Len(exec.trace)].result>>
             ELSE /\ exec.result = <<<<"Ok">>>>
                  /\ Len(exec.trace) = Len(program)

\* A list of MaxItems items returned the Divert of its last but one item.
C29_Witness ==
    /\ exec.stage = "done"
    /\ Len(program) = MaxItems
    /\ Len(exec.trace) = MaxItems - 1
    /\ exec.result = <<<<"Err", "Return">>>>

\* C28: traps caught during one Command are dispatched before the next
\* Command begins: while a command runs, every signal with a command trap
\* that was caught during an earlier command has had its command run.
C28_TrapsRunBeforeNextCommand ==
    exec.stage = "command" =>
        \A m \in exec.missed :
            (m[1] \in CommandSignals /\ m[1] \in owed)
                => m[2] = exec.begun[Len(exec.begun)]

\* C30: once an and-or list with a pair (op, next) has returned without a
\* Divert, its next pipeline has run if and only if the exit status of the
\* first pipeline was zero for AndThen and non-zero for OrElse.
C30_AndOrRunsNextByExitStatus ==
    \A i \in 1..Len(exec.trace) :
        (exec.trace[i].result = <<"Ok">> /\ program[i].rest # <<>>) =>
            ((\E k \in 1..Len(exec.begun) : exec.begun[k] = <<i, 2>>)
                 <=> IF program[i].rest[1].op = "AndThen"
                     THEN program[i].first[1].status = 0
                     ELSE program[i].first[1].status # 0)

----------------------------------------------------------------------------
(* Further properties of the variable set *)

\* C36: for every name the variables of the stack belong to contexts with
\* strictly increasing indices, all of them smaller than the number of
\* contexts; and right after push_context no variable belongs to the new
\* top context.
C36_StacksFollowContexts ==
    \A name \in Names :
        LET entries == all_variables[name] IN
        /\ \A i \in 1..Len(entries) :
              /\ entries[i].context_index >= 0
              /\ entries[i].context_index < Len(contexts)
              /\ i > 1 => entries[i - 1].context_index < entries[i].context_index
              /\ outcome.op = "push_context" =>
                     entries[i].context_index < Len(contexts) - 1

\* A context in which a variable had been assigned was popped, and the two
\* names still have variables, one of them in two contexts.
C36_Witness ==
    /\ outcome.op = "pop_context"
    /\ outcome.result = <<"Ok">>
    /\ outcome.framed
    /\ Len(contexts) = 2
    /\ Len(all_variables["foo"]) = 2
    /\ Len(all_variables["bar"]) = 1

\* The variable at place i of the stack of `name` is read-only.
ReadOnlyAt(name, i) ==
    all_variables[name][i].variable.read_only_location # <<>>

\* The variable at place i of the stack of `name` is the same after the step.
StaysAt(name, i) ==
    /\ Len(all_variables'[name]) >= i
    /\ all_variables'[name][i] = all_variables[name][i]

\* C37 as stated: no assign call, whatever its scope, removes or changes a
\* read-only variable, in whatever context the variable lives.
C37_AssignKeepsReadOnly ==
    [][outcome'.op = "assign" =>
          \A name \in Names : \A i \in 1..Len(all_variables[name]) :
              ReadOnlyAt(name, i) => StaysAt(name, i)]_varvars

\* C37, amended: no assign call, whatever its scope, removes or changes a
\* read-only variable that lives in a Regular context.
C37_AssignKeepsReadOnlyInRegular ==
    [][outcome'.op = "assign" =>
          \A name \in Names : \A i \in 1..Len(all_variables[name]) :
              (/\ ReadOnlyAt(name, i)
               /\ contexts[all_variables[name][i].context_index + 1].type = "Regular")
                  => StaysAt(name, i)]_varvars

\* A Local assign has put a variable on top of a read-only one.
C37_Witness ==
    /\ outcome.op = "assign"
    /\ outcome.scope = "Local"
    /\ outcome.result[1] = "Ok"
    /\ Len(all_variables["foo"]) = 2
    /\ all_variables["foo"][1].variable.read_only_location # <<>>

----------------------------------------------------------------------------
(* Further properties of the trap set *)

\* The step is a set_action call that returned an error.
SetActionFailed == ret'.op = "set_action" /\ ret'.result[1] = "Err"

\* C38 as stated: a set_action call that returns an error leaves
\* get_state(s), the current and the parent component, as it was, for every
\* signal s.
C38_FailedSetActionChangesNothing ==
    [][SetActionFailed =>
          \A s \in Signals : get_state(traps', s) = get_state(traps, s)]_vars

\* C38, amended: such a call leaves the current component of get_state(s) as
\* it was for every signal s; the parent component is as it was when the
\* error is SIGKILL or SIGSTOP and is None for every signal when the error is
\* InitiallyIgnored or SystemError.
C38_FailedSetActionKeepsCurrent ==
    [][SetActionFailed =>
          \A s \in Signals :
              /\ get_state(traps', s)[1] = get_state(traps, s)[1]
              /\ get_state(traps', s)[2] =
                     IF ret'.result[2] \in {"SIGKILL", "SIGSTOP"}
                     THEN get_state(traps, s)[2]
                     ELSE <<>>]_vars

\* A set_action call failed with InitiallyIgnored in a subshell that
\* remembered the trap of its parent for another signal.
C38_Witness ==
    /\ ret.op = "set_action"
    /\ ret.result = <<"Err", "InitiallyIgnored">>
    /\ ret.dropped # {}
    /\ ret.signal \notin ret.dropped

\* The signal holds a user-specified trap whose pending flag is set.
IsPending(t, s) ==
    /\ s \in DOMAIN t
    /\ t[s].current_setting[1] = "UserSpecified"
    /\ t[s].current_setting[2].pending

\* C39: a successful set_action stores the new state with pending = false,
\* also when it only updates the logical setting because the internal
\* handler is enabled; a signal becomes pending only by a catch_signal call
\* for it, and take_caught_signal returns only a signal that was pending, so
\* a signal whose action has been replaced is not returned unless it is
\* caught again.
C39_SetActionClearsPending ==
    [][/\ (ret'.op = "set_action" /\ ret'.result = <<"Ok">>) =>
              /\ ret'.signal \in DOMAIN traps'
              /\ traps'[ret'.signal].current_setting[1] = "UserSpecified"
              /\ ~traps'[ret'.signal].current_setting[2].pending
       /\ \A s \in Signals :
              (~IsPending(traps, s) /\ IsPending(traps', s)) =>
                  (ret'.op = "catch_signal" /\ ret'.signal = s)
       /\ (ret'.op = "take_caught_signal" /\ ret'.result # <<>>) =>
              IsPending(traps, ret'.result[1][1])]_vars

\* SIGCHLD was caught and not yet taken when a successful set_action replaced
\* its action while the internal handler was enabled; the call has left the
\* disposition alone and nothing is pending.
C39_Witness ==
    /\ ret.op = "set_action"
    /\ ret.signal = "SIGCHLD"
    /\ ret.result = <<"Ok">>
    /\ ret.calls = 0
    /\ ret.was_pending
    /\ traps["SIGCHLD"].internal_handler_enabled
    /\ \A s \in Signals : ~IsPending(traps, s)

----------------------------------------------------------------------------
(* Further properties of running traps *)

\* The call that just returned was made with a Trap frame on the stack.
SuppressedCall ==
    /\ done.result # <<>>
    /\ \E i \in DOMAIN env_stack : env_stack[i] = "Trap"

\* The call that just returned was made with no Trap frame on the stack.
DispatchingCall ==
    /\ done.result # <<>>
    /\ \A i \in DOMAIN env_stack : env_stack[i] # "Trap"

\* The command of `signal` was executed in the call that just returned.
RanIn(signal) == \E i \in 1..Len(done.ran) : done.ran[i].signal = signal

\* C40 as stated, where every signal is delivered while a Trap frame is on
\* the stack: a call made under a Trap frame leaves the signals the system
\* reported pending in the trap set and runs nothing, and a call made with
\* no Trap frame runs the command of every signal with a command trap that
\* was delivered and whose command has not run since.  (Such a signal that
\* a call fails to run was also not run by the first call after the removal
\* of the frame.)
C40_SuppressedSignalsRunInNextCall ==
    /\ SuppressedCall => (done.polled \subseteq done.left /\ done.ran = <<>>)
    /\ DispatchingCall =>
           \A s \in done.due : HasTrap(traps, s, "Command") => RanIn(s)

\* C40, amended: the same, unless a trap command run in the call yields a
\* Divert; then every such signal whose command the call has not run is
\* still pending in the trap set.
C40_SuppressedSignalsRunOrStayPending ==
    /\ SuppressedCall => (done.polled \subseteq done.left /\ done.ran = <<>>)
    /\ DispatchingCall =>
           \A s \in done.due :
               HasTrap(traps, s, "Command") =>
                   \/ RanIn(s)
                   \/ done.result[1] = "Break" /\ s \in done.left

\* Both signals were delivered under a Trap frame; the call made after its
\* removal ran the command of one, which returned, and left the other
\* pending.
C40_Witness ==
    /\ DispatchingCall
    /\ done.due = {"SIGUSR1", "SIGCHLD"}
    /\ done.result = <<"Break", "Return">>
    /\ Len(done.ran) = 1
    /\ Cardinality(done.left) = 1
    /\ \A s \in done.due : HasTrap(traps, s, "Command")

----------------------------------------------------------------------------
(* Properties of simple commands *)

\* SimpleCommand::execute has just returned.
ExecuteReturned == simple.stage = "returned"

\* The command had a name, which `search` looked up with the given result.
Found(kind) == simple.target # <<>> /\ simple.target[1].kind = kind

\* C31: after a simple command that names an external utility, or a command
\* that is not found, the exit status is 127 when the command was not found
\* or execve failed with ENOENT or ENOTDIR, 126 when execve failed with
\* another error or the subshell could not be created, and the exit status
\* of the child otherwise; execute has returned Ok(()), without a Divert.
C31_ExternalExitStatus ==
    (ExecuteReturned /\ (Found("External") \/ Found("None"))) =>
        /\ simple.result = <<<<"Ok">>>>
        /\ exit_status =
              IF Found("None") THEN 127
              ELSE IF simple.fork[1][1] = "Err" THEN 126
              ELSE IF simple.execve[1][1] = "Err"
              THEN IF simple.execve[1][2] \in {"ENOENT", "ENOTDIR"} THEN 127 ELSE 126
              ELSE simple.execve[1][2]

\* An external utility was run after a built-in had set the exit status to
\* 1: execve failed with ENOTDIR and the exit status is 127.
C31_Witness ==
    /\ ExecuteReturned
    /\ Found("External")
    /\ simple.execve = <<<<"Err", "ENOTDIR">>>>
    /\ simple.child = <<127>>
    /\ simple.before = 1
    /\ exit_status = 127

\* C32: when the expansion of the words of a simple command fails, the
\* command is not run (nothing is looked up and no child is created) and the
\* exit status after the command is not zero.
C32_ExpansionFailureSetsExitStatus ==
    (ExecuteReturned /\ simple.expansion[1][1] = "Err") =>
        /\ simple.target = <<>>
        /\ simple.fork = <<>>
        /\ exit_status # 0

----------------------------------------------------------------------------
(* Properties of the errors of built-ins *)

\* The stack holds the frame of a built-in, and the innermost such frame is
\* marked special.
InnermostBuiltinIsSpecial ==
    \E i \in 1..Len(env_stack) :
        /\ env_stack[i][1] = "Builtin"
        /\ env_stack[i][2].is_special
        /\ \A j \in (i + 1)..Len(env_stack) : env_stack[j][1] # "Builtin"

\* C33: the divert for an error of a built-in, from builtin_error and from
\* builtin_message_and_divert alike, is Break(Divert::Interrupt(None)) when
\* the innermost Builtin frame on the stack is marked special, and
\* Continue(()) when that frame is not special or the stack holds no Builtin
\* frame.
C33_InterruptIffSpecialBuiltin ==
    answer.op \in {"builtin_error", "builtin_message_and_divert"} =>
        answer.result = IF InnermostBuiltinIsSpecial
                        THEN <<"Break", <<"Interrupt", <<>>>>>>
                        ELSE <<"Continue">>

\* An error was reported under a special built-in that was called from a
\* trap run by a non-special built-in: the divert is the Interrupt.
C33_Witness ==
    /\ answer.op = "builtin_message_and_divert"
    /\ answer.result = <<"Break", <<"Interrupt", <<>>>>>>
    /\ Len(env_stack) = 3
    /\ env_stack[1][1] = "Builtin" /\ ~env_stack[1][2].is_special
    /\ env_stack[2] = <<"Trap">>
    /\ env_stack[3][1] = "Builtin"

----------------------------------------------------------------------------
(* Properties of words and assignments *)

\* The unit is an unquoted literal character; the unit is the unquoted
\* literal equal sign.
IsLiteral(u) == u[1] = "Unquoted" /\ u[2][1] = "Literal"
IsEqualSign(u) == u = <<"Unquoted", <<"Literal", "=">>>>

\* The places k (counted from 1) of the word that make it an assignment: the
\* first unquoted literal '=', not at the start, with unquoted literals only
\* before it.
AssignPlaces(units) ==
    {k \in 2..Len(units) :
        /\ IsEqualSign(units[k])
        /\ \A j \in 1..(k - 1) : IsLiteral(units[j]) /\ ~IsEqualSign(units[j])}

\* C34: the conversion of a word W into an Assign succeeds if and only if W
\* has a first unquoted literal '=' at a position k > 0 and the units before
\* it are all unquoted literals; then the name is the string of those units
\* and the value is Scalar of the word made of the units after the '='; when
\* it fails the word is returned unchanged.
C34_AssignFromWord ==
    answer.op = "try_from" =>
        LET units == answer.word.units
            places == AssignPlaces(units)
        IN  IF places # {}
            THEN \E k \in places :
                   /\ answer.result[1] = "Ok"
                   /\ answer.result[2].name = [i \in 1..(k - 1) |-> units[i][2][2]]
                   /\ answer.result[2].value =
                          <<"Scalar",
                            [units |-> [i \in 1..(Len(units) - k) |-> units[k + i]],
                             location |-> answer.word.location]>>
            ELSE answer.result = <<"Err", answer.word>>

\* The word a="=" was converted: the name is a and the value is the quoted
\* equal sign.
C34_Witness ==
    /\ answer.op = "try_from"
    /\ answer.word.units = <<<<"Unquoted", <<"Literal", "a">>>>,
                             <<"Unquoted", <<"Literal", "=">>>>,
                             <<"DoubleQuote", <<<<"Literal", "=">>>>>>>>
    /\ answer.result[1] = "Ok"
    /\ answer.result[2].name = <<"a">>
    /\ answer.result[2].value[2].units = <<<<"DoubleQuote", <<<<"Literal", "=">>>>>>>>

----------------------------------------------------------------------------
(* Properties of assignments in arithmetic expansions *)

\* The context a Global assign selects for a name with the given stack: that
\* of the topmost variable of the name that is not in a Volatile context, the
\* base context if there is none.
GlobalTarget(entries) ==
    LET lasting == {i \in 1..Len(entries) :
                       contexts[entries[i].context_index + 1].type # "Volatile"}
    IN  IF lasting = {} THEN 0
        ELSE entries[CHOOSE i \in lasting : \A j \in lasting : j <= i].context_index

\* The variables of the stack that belong to the context.
BindingsIn(entries, index) ==
    {entries[i].variable : i \in {j \in 1..Len(entries) : entries[j].context_index = index}}

\* The shape both statements of C35 share; `inherits` is whether the
\* variable the assignment stores is exported when the variable the target
\* context held for the name was.
ArithAssignment(inherits) ==
    (outcome.op = "expand" /\ outcome.expression.kind = "assign") =>
        LET name == outcome.expression.name
            index == GlobalTarget(outcome.before[name])
            old == BindingsIn(outcome.before[name], index)
            now == BindingsIn(all_variables[name], index)
        IN  IF \E v \in old : v.read_only_location # <<>>
            THEN /\ outcome.result[1] = "Err"
                 /\ outcome.result[2][1] = "AssignReadOnly"
                 /\ now = old
            ELSE /\ outcome.result[1] = "Ok"
                 /\ now = {[value |-> <<"Scalar", outcome.expression.value>>,
                            is_exported |-> inherits /\ \E v \in old : v.is_exported,
                            read_only_location |-> <<>>]}

\* C35 as stated: an assignment in an arithmetic expansion stores, in the
\* context a Global assign selects, a Scalar holding the decimal result,
\* not exported and not read-only; if the variable of that context is
\* read-only the expansion fails with AssignReadOnly and that variable
\* keeps its value.
C35_ArithAssignsPlainScalar == ArithAssignment(FALSE)

\* C35, amended: the same, but the stored variable is exported when the
\* variable it replaces in that context was exported.
C35_ArithAssignsScalarKeepingExport == ArithAssignment(TRUE)

\* An arithmetic assignment replaced an exported array of an outer Regular
\* context under a Volatile context: the variable is the exported scalar 24.
C35_Witness ==
    /\ outcome.op = "expand"
    /\ outcome.result = <<"Ok", "24">>
    /\ Len(contexts) = 2
    /\ contexts[2].type = "Volatile"
    /\ Len(outcome.before["foo"]) = 2
    /\ outcome.before["foo"][1].variable.value[1] = "Array"
    /\ outcome.before["foo"][1].variable.is_exported
    /\ all_variables["foo"] =
           <<[variable |-> [value |-> <<"Scalar", "24">>, is_exported |-> TRUE,
                            read_only_location |-> <<>>],
              context_index |-> 0]>>

====
